---- MODULE Spec2Model ----
(***************************************************************************)
(* Three-tier retrieval pipeline: semantic cache, knowledge base with      *)
(* time-weighted search, external search with self-learning ingestion.     *)
(*                                                                         *)
(* Texts are sequences of words.  Embeddings are integer vectors of norm   *)
(* 100, so that the cosine similarity of two embeddings is their dot       *)
(* product in units of 1/10000.                                            *)
(***************************************************************************)
EXTENDS Integers, Sequences, FiniteSets, TLC

VARIABLES
    cache,      \* table semantic_cache: a set of rows
    cacheSeq,   \* last identifier handed out by semantic_cache.id
    kb,         \* table knowledge_base: a set of rows
    kbSeq,      \* last identifier handed out by knowledge_base.id
    now,        \* the current day
    task,       \* pipeline invocations: task[p] holds the locals of search()
    started,    \* number of pipeline invocations started
    call,       \* cache service calls: call[x] holds the locals of caller x's call
    calls,      \* number of cache service calls made by the direct callers
    lastStore,  \* <<[id, query]>> while the latest change of the cache is that store
    writes,     \* writes[x]: the statements of x's current invocation that changed a table
    ks,         \* the latest direct call of a knowledge or external search: what it
                \* was given, the calls it issued and what it returned
    svc,        \* the latest direct call of another service function: what it was
                \* given and what it came to
    db          \* DatabasePool: the class attribute _pool, the pools created and
                \* closed, and the coroutines inside get_pool and close_pool

vars == <<cache, cacheSeq, kb, kbSeq, now, task, started, call, calls, lastStore, writes, ks,
          svc, db>>

----------------------------------------------------------------------------
(* Bounds of the model *)

MaxInvocations == 2
MaxCalls == 4

Procs == {"p1", "p2"}
\* the handlers that take a further request once they have answered one
Sequential == {"p1"}
Clients == {"c1", "c2"}
Callers == Procs \cup Clients

----------------------------------------------------------------------------
(* Texts and their embeddings *)

QRag == <<"rag">>
QWhatIsRag == <<"what", "is", "rag">>
QLlm == <<"llm">>
Queries == {QRag, QWhatIsRag, QLlm}
PipelineQueries == {QRag, QLlm}

SimScale == 10000

\* get_embedding: the embedding provider, a fixed map from text to unit vector
get_embedding(text) ==
    CASE text = <<"rag">> -> <<100, 0>>
      [] text = <<"what", "is", "rag">> -> <<96, 28>>
      [] text = <<"what", "rag">> -> <<96, 28>>
      [] text = <<"llm">> -> <<0, 100>>
      [] text = <<"Title:", "rag", "Abstract:", "retrieval">> -> <<96, 28>>
      [] text = <<"Title:", "llm", "Abstract:", "models">> -> <<28, 96>>
      [] text = <<"HuggingFace", "Model:", "bert", "Description:", "encoder">> -> <<60, 80>>
      [] text = <<"manual", "note", "llm">> -> <<28, 96>>
      [] OTHER -> <<-100, 0>>

\* embedding_to_pgvector: the list of numbers written as "[x,y]"
embedding_to_pgvector(embedding) ==
    <<"[", embedding, "]">>

\* $1::vector: the cast of the pgvector text back to a vector
CastVector(embedding_str) ==
    embedding_str[2]

\* a <=> b: pgvector's cosine distance, for vectors of norm 100
CosineDistance(a, b) ==
    SimScale - (a[1] * b[1] + a[2] * b[2])

\* 1 - (a <=> b)
Similarity(a, b) ==
    SimScale - CosineDistance(a, b)

----------------------------------------------------------------------------
(* Source citations and their serialized form *)

\* SourceInfo.model_dump + json.dumps: one JSON object per citation
DumpSource(s) ==
    <<s.source_type, s.title, s.url, s.author, s.relevance_score>>

\* json.loads + SourceInfo(**s)
LoadSource(j) ==
    [source_type |-> j[1], title |-> j[2], url |-> j[3], author |-> j[4],
     relevance_score |-> j[5]]

DumpSources(sources) ==
    [i \in 1..Len(sources) |-> DumpSource(sources[i])]

LoadSources(sources_json) ==
    [i \in 1..Len(sources_json) |-> LoadSource(sources_json[i])]

----------------------------------------------------------------------------
(* Cache tier: the statements of SemanticCacheService on table semantic_cache *)

cache_similarity_threshold == 9500

\* hit_count of a row inserted without one: the column default
DefaultHitCount == 0

\* the rows of the table annotated with their similarity to the query
WithSimilarity(table, embedding_str) ==
    {[id |-> r.id, query_text |-> r.query_text, response_text |-> r.response_text,
      sources |-> r.sources, hit_count |-> r.hit_count, created_at |-> r.created_at,
      similarity |-> Similarity(r.query_embedding, CastVector(embedding_str))] : r \in table}

\* the SELECT without its ORDER BY: any row that meets the threshold
SelectAnyQualifying(table, embedding_str, threshold) ==
    LET rows == {r \in WithSimilarity(table, embedding_str) : r.similarity >= threshold}
    IN  IF rows = {} THEN {<<>>} ELSE {<<r>> : r \in rows}

\* SELECT ... WHERE similarity >= $2 ORDER BY similarity DESC LIMIT 1:
\* the rows fetchrow may return (<<>> is no row); ties are in no defined order
SelectNearest(table, embedding_str, threshold) ==
    LET rows == {r \in WithSimilarity(table, embedding_str) : r.similarity >= threshold}
    IN  IF rows = {} THEN {<<>>}
        ELSE {<<r>> : r \in {x \in rows : \A y \in rows : y.similarity <= x.similarity}}

\* UPDATE semantic_cache SET hit_count = hit_count + 1 WHERE id = $1
IncrementHitCount(table, id) ==
    {IF r.id = id THEN [r EXCEPT !.hit_count = @ + 1] ELSE r : r \in table}

\* the command status of that UPDATE: the number of rows it changed
UpdateStatus(table, id) ==
    Cardinality({r \in table : r.id = id})

\* the row is stored with the embedding of another text
InsertRowOtherEmbedding(table, id, query, embedding_str, response, sources_json, day) ==
    table \cup {[id |-> id, query_text |-> query,
                 query_embedding |-> CastVector(embedding_to_pgvector(get_embedding(<<>>))),
                 response_text |-> response, sources |-> sources_json,
                 hit_count |-> DefaultHitCount, created_at |-> day]}

\* the insert replaces the rows whose query is within the threshold of the new one
InsertRowDeduplicated(table, id, query, embedding_str, response, sources_json, day) ==
    {r \in table : Similarity(r.query_embedding, CastVector(embedding_str))
                      < cache_similarity_threshold}
        \cup {[id |-> id, query_text |-> query,
                query_embedding |-> CastVector(embedding_str),
                response_text |-> response, sources |-> sources_json,
                hit_count |-> DefaultHitCount, created_at |-> day]}

\* INSERT INTO semantic_cache (query_text, query_embedding, response_text, sources)
InsertRow(table, id, query, embedding_str, response, sources_json, day) ==
    table \cup {[id |-> id, query_text |-> query,
                 query_embedding |-> CastVector(embedding_str),
                 response_text |-> response, sources |-> sources_json,
                 hit_count |-> DefaultHitCount, created_at |-> day]}

\* the entry carries the hit count as fetched
MakeEntryAsFetched(row) ==
    [id |-> row.id, query_text |-> row.query_text, response_text |-> row.response_text,
     sources |-> LoadSources(row.sources), hit_count |-> row.hit_count,
     similarity |-> row.similarity, created_at |-> row.created_at]

\* CacheEntry(...) built from the fetched row
MakeEntry(row) ==
    [id |-> row.id, query_text |-> row.query_text, response_text |-> row.response_text,
     sources |-> LoadSources(row.sources), hit_count |-> row.hit_count + 1,
     similarity |-> row.similarity, created_at |-> row.created_at]

\* DELETE FROM semantic_cache: the command status "DELETE n"
DeleteStatus(table) ==
    <<"DELETE", Cardinality(table)>>

\* the locals of a cache service call that has not been made
NoCall ==
    [pc |-> "none", op |-> "none", query |-> <<>>, response |-> "", sources |-> <<>>,
     embedding_str |-> <<>>, row |-> <<>>, update_status |-> -1, entry |-> <<>>,
     cache_id |-> 0, count |-> -1, after_store |-> <<>>]

Idle(x) ==
    call[x].pc \in {"none", "returned"}

\* search(query): the embedding is computed, the SELECT is next
BeginSearch(x, query) ==
    [NoCall EXCEPT !.pc = "search_select", !.op = "search", !.query = query,
                   !.embedding_str = embedding_to_pgvector(get_embedding(query))]

\* store called without the citations
BeginStoreNoSources(x, query, response, sources) ==
    [NoCall EXCEPT !.pc = "store_insert", !.op = "store", !.query = query,
                   !.response = response,
                   !.embedding_str = embedding_to_pgvector(get_embedding(query))]

\* store(query, response, sources): the embedding is computed, the INSERT is next
BeginStore(x, query, response, sources) ==
    [NoCall EXCEPT !.pc = "store_insert", !.op = "store", !.query = query,
                   !.response = response, !.sources = sources,
                   !.embedding_str = embedding_to_pgvector(get_embedding(query))]

\* search: row = await conn.fetchrow(SELECT ...); no row is a miss and returns None
SearchSelect(x) ==
    /\ call[x].pc = "search_select"
    /\ \E row \in SelectNearest(cache, call[x].embedding_str, cache_similarity_threshold) :
          call' = [call EXCEPT ![x].row = row,
                               ![x].pc = IF row = <<>> THEN "returned" ELSE "search_update",
                               ![x].after_store =
                                   IF lastStore # <<>> /\ lastStore[1].query = call[x].query
                                   THEN lastStore ELSE <<>>]
    /\ UNCHANGED <<cache, cacheSeq, kb, kbSeq, now, ks, task, started,
                   calls, lastStore, writes, svc, db>>

\* the counter is written back from the fetched row: SET hit_count = $fetched + 1
SearchUpdateFromFetched(x) ==
    /\ call[x].pc = "search_update"
    /\ cache' = {IF r.id = call[x].row[1].id
                 THEN [r EXCEPT !.hit_count = call[x].row[1].hit_count + 1] ELSE r :
                 r \in cache}
    /\ call' = [call EXCEPT ![x].update_status = UpdateStatus(cache, call[x].row[1].id),
                            ![x].entry = <<MakeEntry(call[x].row[1])>>,
                            ![x].after_store = <<>>,
                            ![x].pc = "returned"]
    /\ lastStore' = IF cache' = cache THEN lastStore ELSE <<>>
    /\ writes' = [writes EXCEPT ![x] = IF cache' = cache THEN @ ELSE @ + 1]
    /\ UNCHANGED <<cacheSeq, kb, kbSeq, now, ks, task, started, calls, svc, db>>

\* search: await conn.execute(UPDATE ...); the entry is built from the fetched row
SearchUpdate(x) ==
    /\ call[x].pc = "search_update"
    /\ cache' = IncrementHitCount(cache, call[x].row[1].id)
    /\ call' = [call EXCEPT ![x].update_status = UpdateStatus(cache, call[x].row[1].id),
                            ![x].entry = <<MakeEntry(call[x].row[1])>>,
                            ![x].after_store = <<>>,
                            ![x].pc = "returned"]
    /\ lastStore' = IF cache' = cache THEN lastStore ELSE <<>>
    /\ writes' = [writes EXCEPT ![x] = IF cache' = cache THEN @ ELSE @ + 1]
    /\ UNCHANGED <<cacheSeq, kb, kbSeq, now, ks, task, started, calls, svc, db>>

\* the store deduplicates: a row with the same query text is overwritten and
\* its identifier returned
StoreUpsert(x) ==
    /\ call[x].pc = "store_insert"
    /\ LET same == {r \in cache : r.query_text = call[x].query}
           old == CHOOSE r \in same : \A o \in same : r.id <= o.id
       IN  IF same = {}
           THEN /\ cacheSeq' = cacheSeq + 1
                /\ cache' = InsertRow(cache, cacheSeq', call[x].query, call[x].embedding_str,
                                      call[x].response, DumpSources(call[x].sources), now)
                /\ call' = [call EXCEPT ![x].cache_id = cacheSeq', ![x].pc = "returned"]
           ELSE /\ cacheSeq' = cacheSeq
                /\ cache' = (cache \ {old}) \cup
                                {[old EXCEPT !.response_text = call[x].response,
                                             !.sources = DumpSources(call[x].sources)]}
                /\ call' = [call EXCEPT ![x].cache_id = old.id, ![x].pc = "returned"]
    /\ lastStore' = <<[id |-> call'[x].cache_id, query |-> call[x].query]>>
    /\ writes' = [writes EXCEPT ![x] = IF cache' = cache THEN @ ELSE @ + 1]
    /\ UNCHANGED <<kb, kbSeq, now, ks, task, started, calls, svc, db>>

\* store: cache_id = await conn.fetchval(INSERT ... RETURNING id)
StoreInsert(x) ==
    /\ call[x].pc = "store_insert"
    /\ cacheSeq' = cacheSeq + 1
    /\ cache' = InsertRow(cache, cacheSeq', call[x].query, call[x].embedding_str,
                          call[x].response, DumpSources(call[x].sources), now)
    /\ call' = [call EXCEPT ![x].cache_id = cacheSeq', ![x].pc = "returned"]
    /\ lastStore' = <<[id |-> cacheSeq', query |-> call[x].query]>>
    /\ writes' = [writes EXCEPT ![x] = IF cache' = cache THEN @ ELSE @ + 1]
    /\ UNCHANGED <<kb, kbSeq, now, ks, task, started, calls, svc, db>>

\* only the rows that were never hit are deleted
DeleteNeverHit(table) ==
    {r \in table : r.hit_count > DefaultHitCount}

\* DELETE FROM semantic_cache: the table afterwards
DeleteAll(table) ==
    {r \in table : FALSE}

\* clear(): one DELETE statement; count = int(result.split()[-1])
ClearCache(x) ==
    /\ cache' = DeleteAll(cache)
    /\ call' = [call EXCEPT ![x] = [NoCall EXCEPT !.op = "clear", !.pc = "returned",
                     !.count = DeleteStatus(cache)[Len(DeleteStatus(cache))]]]
    /\ lastStore' = <<>>

----------------------------------------------------------------------------
(* Knowledge tier: VectorStoreService on table knowledge_base *)

vector_search_limit == 10
min_similarity == 5000

\* the tiers with the boundary ages on the upper tier
RecencyOfAgeInclusive(age_days) ==
    IF age_days <= 7 THEN 10000
    ELSE IF age_days <= 30 THEN 7000
    ELSE 5000

\* the tiers of calculate_recency_score: 1.0, 0.7 or 0.5 by age in whole days
RecencyOfAge(age_days) ==
    IF age_days < 7 THEN 10000
    ELSE IF age_days < 30 THEN 7000
    ELSE 5000

\* calculate_recency_score of a row stamped with a whole day
calculate_recency_score(created_at, today) ==
    LET age_days == today - created_at
    IN  RecencyOfAge(age_days)

\* A datetime: wall, the hours its clock shows since the epoch, and tz, its
\* offset from UTC in hours, <<>> when it has no tzinfo.
HoursPerDay == 24

UtcNow(today) ==
    [wall |-> today * HoursPerDay, tz |-> <<0>>]

\* created_at.replace(tzinfo=timezone.utc) when created_at.tzinfo is None
AssumeUtc(created_at) ==
    IF created_at.tz = <<>> THEN [created_at EXCEPT !.tz = <<0>>] ELSE created_at

\* a - b of two datetimes, in hours; TypeError is raised when exactly one of
\* them has no tzinfo
Minus(a, b) ==
    IF (a.tz = <<>>) # (b.tz = <<>>) THEN [raised |-> <<"TypeError">>, hours |-> 0]
    ELSE IF a.tz = <<>> THEN [raised |-> <<>>, hours |-> a.wall - b.wall]
    ELSE [raised |-> <<>>, hours |-> (a.wall - a.tz[1]) - (b.wall - b.tz[1])]

\* timedelta.days: the whole days of a difference, rounded down
Days(hours) ==
    hours \div HoursPerDay

\* calculate_recency_score of a datetime, at the instant now
RecencyOfTimestamp(created_at, today) ==
    LET delta == Minus(UtcNow(today), AssumeUtc(created_at))
    IN  IF delta.raised # <<>> THEN [raised |-> delta.raised, score |-> 0]
        ELSE [raised |-> <<>>, score |-> RecencyOfAge(Days(delta.hours))]

\* the recency weighted 0.4: the weights sum to 1.1
FinalScoreOverweighted(similarity, recency) ==
    similarity * 7 + recency * 4

\* similarity * 0.7 + recency * 0.3, in units of 1/100000
FinalScore(similarity, recency) ==
    similarity * 7 + recency * 3

\* " ".join(keywords): the words of the keywords, in order
RECURSIVE JoinKeywords(_)
JoinKeywords(keywords) ==
    IF keywords = <<>> THEN <<>>
    ELSE Head(keywords) \o JoinKeywords(Tail(keywords))

\* a row of knowledge_base annotated with its similarity to the search text
KnowledgeRow(r, embedding_str) ==
    [id |-> r.id, content |-> r.content, source_type |-> r.source_type,
     source_url |-> r.source_url, source_title |-> r.source_title,
     source_author |-> r.source_author, metadata |-> r.metadata,
     created_at |-> r.created_at,
     similarity |-> Similarity(r.content_embedding, CastVector(embedding_str))]

\* SELECT ... ORDER BY similarity DESC LIMIT k: the row lists fetch may return
RECURSIVE FetchNearest(_, _)
FetchNearest(rows, k) ==
    IF k = 0 \/ rows = {} THEN {<<>>}
    ELSE UNION {{<<r>> \o rest : rest \in FetchNearest(rows \ {r}, k - 1)} :
                r \in {x \in rows : \A y \in rows : y.similarity <= x.similarity}}

\* the loop drops the rows whose final score is under the threshold
RECURSIVE ScoreRowsByFinalScore(_, _, _)
ScoreRowsByFinalScore(rows, min_sim, today) ==
    IF rows = <<>> THEN <<>>
    ELSE LET row == Head(rows)
             recency == calculate_recency_score(row.created_at, today)
             item == [id |-> row.id, content |-> row.content,
                      source_type |-> row.source_type, source_url |-> row.source_url,
                      source_title |-> row.source_title,
                      source_author |-> row.source_author, metadata |-> row.metadata,
                      similarity |-> row.similarity, recency_score |-> recency,
                      final_score |-> FinalScore(row.similarity, recency),
                      created_at |-> row.created_at]
         IN  IF item.final_score < min_sim * 10
             THEN ScoreRowsByFinalScore(Tail(rows), min_sim, today)
             ELSE <<item>> \o ScoreRowsByFinalScore(Tail(rows), min_sim, today)

\* the loop over the rows: drop those under min_similarity, score the others
RECURSIVE ScoreRows(_, _, _)
ScoreRows(rows, min_sim, today) ==
    IF rows = <<>> THEN <<>>
    ELSE LET row == Head(rows)
             recency == calculate_recency_score(row.created_at, today)
             item == [id |-> row.id, content |-> row.content,
                      source_type |-> row.source_type, source_url |-> row.source_url,
                      source_title |-> row.source_title,
                      source_author |-> row.source_author, metadata |-> row.metadata,
                      similarity |-> row.similarity, recency_score |-> recency,
                      final_score |-> FinalScore(row.similarity, recency),
                      created_at |-> row.created_at]
         IN  IF row.similarity < min_sim THEN ScoreRows(Tail(rows), min_sim, today)
             ELSE <<item>> \o ScoreRows(Tail(rows), min_sim, today)

\* no sort: the items stay in the order of the rows, most similar first
KeepRowOrder(items) ==
    items

\* items.sort(key=final_score, reverse=True): stable, highest score first
RECURSIVE SortByFinalScore(_)
SortByFinalScore(items) ==
    IF items = <<>> THEN <<>>
    ELSE LET last == items[Len(items)]
             front == SortByFinalScore(SubSeq(items, 1, Len(items) - 1))
             keep == {i \in 1..Len(front) : front[i].final_score >= last.final_score}
             n == Cardinality(keep)
         IN  SubSeq(front, 1, n) \o <<last>> \o SubSeq(front, n + 1, Len(front))

\* items[-limit:]: the last items are kept instead of the first
TruncateFromEnd(items, limit) ==
    SubSeq(items, (IF Len(items) < limit THEN 0 ELSE Len(items) - limit) + 1, Len(items))

\* items[:limit]
Truncate(items, limit) ==
    SubSeq(items, 1, IF Len(items) < limit THEN Len(items) ELSE limit)

\* limit = limit or self.settings.vector_search_limit
EffectiveLimit(limit) ==
    IF limit = <<>> \/ limit[1] = 0 THEN vector_search_limit ELSE limit[1]

\* the search without its first two lines: the keywords are embedded and the
\* index is queried even when there are none
VectorSearchRunsUnguarded(table, keywords, limit, min_sim, today) ==
    LET lim == EffectiveLimit(limit)
        search_text == JoinKeywords(keywords)
        embedding_str == embedding_to_pgvector(get_embedding(search_text))
        rows == {KnowledgeRow(r, embedding_str) : r \in table}
    IN  {[embedded |-> <<search_text>>, queries |-> <<lim * 2>>, fetched |-> fetched,
          items |-> Truncate(SortByFinalScore(ScoreRows(fetched, min_sim, today)), lim)] :
             fetched \in FetchNearest(rows, lim * 2)}

\* VectorStoreService.search, as the runs it may take: the texts it embedded,
\* the LIMIT of each index query it issued, the rows fetched, the items returned
VectorSearchRuns(table, keywords, limit, min_sim, today) ==
    IF keywords = <<>>
    THEN {[embedded |-> <<>>, queries |-> <<>>, fetched |-> <<>>, items |-> <<>>]}
    ELSE LET lim == EffectiveLimit(limit)
             search_text == JoinKeywords(keywords)
             embedding_str == embedding_to_pgvector(get_embedding(search_text))
             rows == {KnowledgeRow(r, embedding_str) : r \in table}
         IN  {[embedded |-> <<search_text>>, queries |-> <<lim * 2>>, fetched |-> fetched,
               items |-> Truncate(SortByFinalScore(ScoreRows(fetched, min_sim, today)), lim)] :
                  fetched \in FetchNearest(rows, lim * 2)}

\* VectorStoreService.search: the result lists the call may return
VectorSearch(table, keywords, limit, min_sim, today) ==
    {run.items : run \in VectorSearchRuns(table, keywords, limit, min_sim, today)}

\* get_count: SELECT COUNT(*) FROM knowledge_base
get_count(table) ==
    Cardinality(table)

\* the insert replaces the documents of the same origin URL
InsertDocumentByUrl(table, id, item, day) ==
    {r \in table : r.source_url # item.source_url}
        \cup {[id |-> id, content |-> item.content,
                content_embedding |->
                    CastVector(embedding_to_pgvector(get_embedding(item.content))),
                source_type |-> item.source_type, source_url |-> item.source_url,
                source_title |-> item.source_title, source_author |-> item.source_author,
                metadata |-> item.metadata, created_at |-> day]}

\* INSERT INTO knowledge_base (...) VALUES (...) RETURNING id
InsertDocument(table, id, item, day) ==
    table \cup {[id |-> id, content |-> item.content,
                 content_embedding |->
                     CastVector(embedding_to_pgvector(get_embedding(item.content))),
                 source_type |-> item.source_type, source_url |-> item.source_url,
                 source_title |-> item.source_title, source_author |-> item.source_author,
                 metadata |-> item.metadata, created_at |-> day]}

\* How an ingest ends: "ok", or the exception of its embedding call
\* ("EmbeddingError") or of its INSERT ("PostgresError").
IngestOutcomes ==
    {"ok", "EmbeddingError", "PostgresError"}

\* a document whose content is already stored is not stored again
IngestIfNew(table, seq, item, day, outcome) ==
    IF outcome # "ok"
    THEN [kb |-> table, kbSeq |-> seq, raised |-> <<outcome>>, id |-> <<>>]
    ELSE IF \E r \in table : r.content = item.content
    THEN [kb |-> table, kbSeq |-> seq, raised |-> <<>>,
          id |-> <<(CHOOSE r \in table : r.content = item.content).id>>]
    ELSE [kb |-> InsertDocument(table, seq + 1, item, day), kbSeq |-> seq + 1,
          raised |-> <<>>, id |-> <<seq + 1>>]

\* ingest(item): the table and its sequence afterwards, what is raised, and
\* the identifier returned
ingest(table, seq, item, day, outcome) ==
    IF outcome # "ok"
    THEN [kb |-> table, kbSeq |-> seq, raised |-> <<outcome>>, id |-> <<>>]
    ELSE [kb |-> InsertDocument(table, seq + 1, item, day), kbSeq |-> seq + 1,
          raised |-> <<>>, id |-> <<seq + 1>>]

\* the documents of a failed batch are taken back
RECURSIVE IngestBatchAtomic(_, _, _, _, _)
IngestBatchAtomic(table, seq, items, day, outcomes) ==
    IF items = <<>>
    THEN [kb |-> table, kbSeq |-> seq, raised |-> <<>>, ids |-> <<>>]
    ELSE LET one == ingest(table, seq, Head(items), day, Head(outcomes))
             rest == IngestBatchAtomic(one.kb, one.kbSeq, Tail(items), day, Tail(outcomes))
         IN  IF one.raised # <<>>
             THEN [kb |-> table, kbSeq |-> seq, raised |-> one.raised, ids |-> <<>>]
             ELSE IF rest.raised # <<>>
             THEN [kb |-> table, kbSeq |-> rest.kbSeq, raised |-> rest.raised, ids |-> <<>>]
             ELSE [rest EXCEPT !.ids = one.id \o @]

\* ingest_batch(items): one ingest per item, in order; the exception of an
\* ingest ends the loop and is raised, and ids is lost with the frame
RECURSIVE ingest_batch(_, _, _, _, _)
ingest_batch(table, seq, items, day, outcomes) ==
    IF items = <<>>
    THEN [kb |-> table, kbSeq |-> seq, raised |-> <<>>, ids |-> <<>>]
    ELSE LET one == ingest(table, seq, Head(items), day, Head(outcomes))
             rest == ingest_batch(one.kb, one.kbSeq, Tail(items), day, Tail(outcomes))
         IN  IF one.raised # <<>>
             THEN [kb |-> one.kb, kbSeq |-> one.kbSeq, raised |-> one.raised, ids |-> <<>>]
             ELSE IF rest.raised # <<>> THEN rest
             ELSE [rest EXCEPT !.ids = one.id \o @]

----------------------------------------------------------------------------
(* External search tier: MCPClientService *)

max_results_per_source == 3

ArxivEntry1 ==
    [title |-> <<"rag">>, summary |-> <<"retrieval">>, id |-> "arxiv/1",
     authors |-> <<"a1", "a2", "a3", "a4">>, categories |-> <<"cs.IR">>]

HFModel1 ==
    [kind |-> "dict", modelId |-> "bert", description |-> <<"encoder">>,
     author |-> <<"google">>, downloads |-> 7, likes |-> 1, tags |-> <<"nlp">>]

\* an element of the model list that is no JSON object
HFBadModel ==
    [kind |-> "string"]

\* What a request may come to.  status is "ok" when the response arrives with
\* a success status and decodes, and otherwise the exception that ends the
\* attempt: raised by client.get (ConnectError, TimeoutException), by
\* raise_for_status (HTTPStatusError), by ET.fromstring (ParseError) or by
\* response.json (JSONDecodeError).
ArxivReplies ==
    {[status |-> "ConnectError", entries |-> <<>>],
     [status |-> "ok", entries |-> <<>>],
     [status |-> "ok", entries |-> <<ArxivEntry1>>]}

HFReplies ==
    {[status |-> "ConnectError", models |-> <<>>],
     [status |-> "ok", models |-> <<>>],
     [status |-> "ok", models |-> <<HFModel1>>],
     [status |-> "ok", models |-> <<HFModel1, HFBadModel>>]}

\* the subclasses of Exception among the exceptions of the model
Exceptions ==
    {"ConnectError", "TimeoutException", "HTTPStatusError", "ParseError",
     "JSONDecodeError", "AttributeError", "TypeError", "APITimeoutError",
     "RateLimitError", "EmbeddingError", "PostgresError", "ValidationError"}

\* except <classes>: what is raised past the handler
Uncaught(raised, classes) ==
    IF raised # <<>> /\ raised[1] \in classes THEN <<>> ELSE raised

FirstN(seq, n) ==
    SubSeq(seq, 1, IF Len(seq) < n THEN Len(seq) ELSE n)

\* _parse_arxiv_response: one MCPSearchResult per entry
parse_arxiv_response(entries) ==
    [i \in 1..Len(entries) |->
        [content |-> <<"Title:">> \o entries[i].title \o <<"Abstract:">> \o entries[i].summary,
         source_type |-> "arxiv_paper",
         source_url |-> entries[i].id,
         source_title |-> entries[i].title,
         source_author |-> FirstN(entries[i].authors, 3),
         metadata |-> [arxiv_id |-> entries[i].id, categories |-> entries[i].categories,
                       all_authors |-> entries[i].authors]]]

\* the requests search_arxiv sends: one GET, unless there are no keywords
ArxivRequests(keywords, max_results) ==
    IF keywords = <<>> THEN <<>>
    ELSE <<[url |-> "ARXIV_API_URL", search_query |-> keywords, max_results |-> max_results]>>

\* search_arxiv: [] without keywords and on any failure
search_arxiv(keywords, max_results, reply) ==
    IF ArxivRequests(keywords, max_results) = <<>> THEN <<>>
    ELSE IF reply.status # "ok" THEN <<>>
    ELSE parse_arxiv_response(reply.entries)

\* the exception that ends the try block of search_arxiv: ParseError is caught
\* in _parse_arxiv_response, which then returns its empty list
ArxivTryRaises(reply) ==
    IF reply.status \in {"ok", "ParseError"} THEN <<>> ELSE <<reply.status>>

\* search_arxiv without its handler: the exception of the try block is raised
SearchArxivUnhandled(keywords, max_results, reply) ==
    IF ArxivRequests(keywords, max_results) = <<>> THEN <<>>
    ELSE ArxivTryRaises(reply)

\* what search_arxiv raises to its caller, behind except Exception
search_arxiv_raises(keywords, max_results, reply) ==
    IF ArxivRequests(keywords, max_results) = <<>> THEN <<>>
    ELSE Uncaught(ArxivTryRaises(reply), Exceptions)

\* the loop of search_huggingface over models[:max_results]: an element that
\* is no object raises, and the results mapped before it are kept
RECURSIVE MapModels(_)
MapModels(models) ==
    IF models = <<>> THEN <<>>
    ELSE IF Head(models).kind # "dict" THEN <<>>
    ELSE <<[content |-> <<"HuggingFace", "Model:", Head(models).modelId, "Description:">>
                            \o Head(models).description,
            source_type |-> "huggingface",
            source_url |-> Head(models).modelId,
            source_title |-> <<Head(models).modelId>>,
            source_author |-> Head(models).author,
            metadata |-> [downloads |-> Head(models).downloads, likes |-> Head(models).likes,
                          tags |-> Head(models).tags]]>>
         \o MapModels(Tail(models))

\* the requests search_huggingface sends: one GET, unless there are no keywords
HFRequests(keywords, max_results) ==
    IF keywords = <<>> THEN <<>>
    ELSE <<[url |-> "huggingface.co/api/models", search |-> JoinKeywords(keywords),
            limit |-> max_results]>>

\* search_huggingface
search_huggingface(keywords, max_results, reply) ==
    IF HFRequests(keywords, max_results) = <<>> THEN <<>>
    ELSE IF reply.status # "ok" THEN <<>>
    ELSE MapModels(FirstN(reply.models, max_results))

\* the exception that ends the try block of search_huggingface: the one of the
\* request, or AttributeError at an element of the list that is no object
HFTryRaises(max_results, reply) ==
    IF reply.status # "ok" THEN <<reply.status>>
    ELSE IF \E i \in 1..Len(FirstN(reply.models, max_results)) :
                reply.models[i].kind # "dict"
         THEN <<"AttributeError">>
    ELSE <<>>

\* what search_huggingface raises to its caller, behind except Exception
search_huggingface_raises(keywords, max_results, reply) ==
    IF HFRequests(keywords, max_results) = <<>> THEN <<>>
    ELSE Uncaught(HFTryRaises(max_results, reply), Exceptions)

\* search_all: arXiv's results, then HuggingFace's
search_all(keywords, per_source, arxiv_reply, hf_reply) ==
    search_arxiv(keywords, per_source, arxiv_reply)
        \o search_huggingface(keywords, per_source, hf_reply)

\* what search_all raises to its caller: what either search raises
search_all_raises(keywords, per_source, arxiv_reply, hf_reply) ==
    IF search_arxiv_raises(keywords, per_source, arxiv_reply) # <<>>
    THEN search_arxiv_raises(keywords, per_source, arxiv_reply)
    ELSE search_huggingface_raises(keywords, per_source, hf_reply)

----------------------------------------------------------------------------
(* Response synthesizer: LLMResponderService *)

\* The code points of the characters of a word.  The words "ga" and "hih" stand
\* for the first and the last Hangul syllable, "geomsaek" for a Korean word,
\* "rag_geomsaek" for a word of Latin letters and syllables, "jamo" for a
\* Hangul letter outside the syllable block, "below" and "above" for the
\* characters next to the block; every other word is of Latin letters.
CodePoints(w) ==
    CASE w = "ga" -> <<44032>>
      [] w = "hih" -> <<55203>>
      [] w = "geomsaek" -> <<44160, 49353>>
      [] w = "rag_geomsaek" -> <<114, 97, 103, 44160, 49353>>
      [] w = "jamo" -> <<12593>>
      [] w = "below" -> <<44031>>
      [] w = "above" -> <<55204>>
      [] OTHER -> <<97>>

HangulFirst == 44032
HangulLast == 55203

\* the default text whatever the query
NotFoundAlwaysDefault(query) ==
    "I couldn't find relevant information to answer your question. Try rephrasing your query or asking about a different topic related to AI and machine learning research."

\* _not_found_response: the Korean text when a character of the query is a
\* Hangul syllable
not_found_response(query) ==
    IF \E i \in 1..Len(query) : \E k \in 1..Len(CodePoints(query[i])) :
          HangulFirst <= CodePoints(query[i])[k] /\ CodePoints(query[i])[k] <= HangulLast
    THEN "(ko) no relevant information found; rephrase the question or ask about another AI and machine learning research topic"
    ELSE "I couldn't find relevant information to answer your question. Try rephrasing your query or asking about a different topic related to AI and machine learning research."

\* item.content[:1000]
ContextChars == 1000

\* the external results are numbered from 1 again
ContextPartsRenumbered(knowledge_items, mcp_results) ==
    [i \in 1..Len(knowledge_items) |->
        [number |-> i, source_type |-> knowledge_items[i].source_type,
         content |-> FirstN(knowledge_items[i].content, ContextChars)]]
    \o [i \in 1..Len(mcp_results) |->
        [number |-> i, source_type |-> mcp_results[i].source_type,
         content |-> FirstN(mcp_results[i].content, ContextChars)]]

\* context_parts: "[Source i] (type)" and the content cut to 1000, a content
\* being the sequence of its text units
ContextParts(knowledge_items, mcp_results) ==
    LET offset == Len(knowledge_items)
    IN  [i \in 1..Len(knowledge_items) |->
            [number |-> i, source_type |-> knowledge_items[i].source_type,
             content |-> FirstN(knowledge_items[i].content, ContextChars)]]
        \o [i \in 1..Len(mcp_results) |->
            [number |-> offset + i, source_type |-> mcp_results[i].source_type,
             content |-> FirstN(mcp_results[i].content, ContextChars)]]

\* the text generation calls generate_response makes
generation_calls(knowledge_items, mcp_results) ==
    IF ContextParts(knowledge_items, mcp_results) = <<>> THEN 0 ELSE 1

\* the citation of a knowledge document carries its recency-weighted sum
\* without the weights
KnowledgeSourcesUnweighted(knowledge_items) ==
    [i \in 1..Len(knowledge_items) |->
        [source_type |-> knowledge_items[i].source_type,
         title |-> knowledge_items[i].source_title,
         url |-> knowledge_items[i].source_url,
         author |-> knowledge_items[i].source_author,
         relevance_score |-> (knowledge_items[i].similarity
                                  + knowledge_items[i].recency_score) * 10]]

KnowledgeSources(knowledge_items) ==
    [i \in 1..Len(knowledge_items) |->
        [source_type |-> knowledge_items[i].source_type,
         title |-> knowledge_items[i].source_title,
         url |-> knowledge_items[i].source_url,
         author |-> knowledge_items[i].source_author,
         relevance_score |-> knowledge_items[i].final_score]]

McpSources(mcp_results) ==
    [i \in 1..Len(mcp_results) |->
        [source_type |-> mcp_results[i].source_type,
         title |-> mcp_results[i].source_title,
         url |-> mcp_results[i].source_url,
         author |-> mcp_results[i].source_author,
         relevance_score |-> 0]]

\* What the text generation call may come to: the exception it raises, or the
\* content of the first choice, <<>> when that is None.
LLMReplies ==
    {[raised |-> <<>>, content |-> <<"answer">>],
     [raised |-> <<"APITimeoutError">>, content |-> <<>>]}

\* str(e)
ErrorText(e) ==
    CASE e = "APITimeoutError" -> "Request timed out."
      [] e = "RateLimitError" -> "Rate limit reached."
      [] e = "AttributeError" -> "'NoneType' object has no attribute 'strip'"
      [] OTHER -> e

\* the exception that ends the try block of generate_response
LLMTryRaises(llm) ==
    IF llm.raised # <<>> THEN llm.raised
    ELSE IF llm.content = <<>> THEN <<"AttributeError">>
    ELSE <<>>

\* the citations are dropped when the generation fails
GenerateResponseNoSources(query, knowledge_items, mcp_results, llm) ==
    LET sources == KnowledgeSources(knowledge_items) \o McpSources(mcp_results)
    IN  IF sources = <<>> THEN <<not_found_response(query), <<>> >>
        ELSE IF LLMTryRaises(llm) # <<>>
             THEN <<"I encountered an error generating a response: "
                        \o ErrorText(LLMTryRaises(llm)[1]), <<>> >>
        ELSE <<llm.content[1], sources>>

\* generate_response: <<response_text, sources>>
generate_response(query, knowledge_items, mcp_results, llm) ==
    LET sources == KnowledgeSources(knowledge_items) \o McpSources(mcp_results)
    IN  IF sources = <<>> THEN <<not_found_response(query), <<>> >>
        ELSE IF LLMTryRaises(llm) # <<>>
             THEN <<"I encountered an error generating a response: "
                        \o ErrorText(LLMTryRaises(llm)[1]), sources>>
        ELSE <<llm.content[1], sources>>

\* what generate_response raises to its caller, behind except Exception
generate_response_raises(query, knowledge_items, mcp_results, llm) ==
    IF KnowledgeSources(knowledge_items) \o McpSources(mcp_results) = <<>> THEN <<>>
    ELSE Uncaught(LLMTryRaises(llm), Exceptions)

----------------------------------------------------------------------------
(* Keyword extractor: KeywordExtractorService *)

Lower(w) ==
    CASE w = "RAG" -> "rag"
      [] w = "What" -> "what"
      [] OTHER -> w

WordLen(w) ==
    CASE w \in {"is", "of", "a"} -> 2
      [] w \in {"rag", "RAG", "llm"} -> 3
      [] OTHER -> 4

\* [w for w in words if len(w) > 2]
RECURSIVE LongWords(_)
LongWords(words) ==
    IF words = <<>> THEN <<>>
    ELSE IF WordLen(Head(words)) > 2
         THEN <<Lower(Head(words))>> \o LongWords(Tail(words))
         ELSE LongWords(Tail(words))

\* the fallback: the lower-cased words longer than 2, the first 5, each a keyword
FallbackKeywords(query) ==
    LET words == FirstN(LongWords(query), 5)
    IN  [i \in 1..Len(words) |-> <<words[i]>>]

\* the keyword lists the text generation call may answer with: none, or the
\* query as one phrase
LLMKeywords(query) ==
    {<<>>, <<query>>}

\* extract: the keyword lists the call may return
extract(query) ==
    LLMKeywords(query) \cup {FallbackKeywords(query)}

\* what the text generation call of extract may answer: it raises, or it
\* returns a message whose content is None or a text. A text is fenced in a
\* markdown code block or not; it parses as JSON or not; the JSON value is an
\* object, an array or null; the object has the key "keywords" or not, and
\* its value is a list of strings or one string
ExtractorContents(query) ==
    [fenced : BOOLEAN, json : {"invalid", "null", "array", "object"},
     has_keywords : BOOLEAN, keywords_type : {"list", "string"},
     keywords : LLMKeywords(query)]

ExtractorReplies(query) ==
    {[raised |-> <<e>>, content |-> <<>>] : e \in {"APITimeoutError", "RateLimitError"}}
      \cup {[raised |-> <<>>, content |-> <<>>]}
      \cup {[raised |-> <<>>, content |-> <<c>>] : c \in ExtractorContents(query)}

\* what the try block of extract raises
ExtractTryRaises(reply) ==
    IF reply.raised # <<>> THEN reply.raised
    ELSE IF reply.content = <<>> THEN <<"AttributeError">>
    ELSE LET content == reply.content[1]
         IN  IF content.json = "invalid" THEN <<"JSONDecodeError">>
             ELSE IF content.json # "object" THEN <<"AttributeError">>
             ELSE IF content.has_keywords /\ content.keywords_type # "list"
                  THEN <<"ValidationError">>
                  ELSE <<>>

\* the keywords extract returns for an answer of the text generation call:
\* data.get("keywords", []) of the parsed object, or the fallback of a handler
extract_keywords(query, reply) ==
    IF ExtractTryRaises(reply) # <<>> THEN FallbackKeywords(query)
    ELSE IF reply.content[1].has_keywords THEN reply.content[1].keywords
    ELSE <<>>

\* both handlers return: nothing raised in the try block leaves extract
extract_raises(query, reply) ==
    Uncaught(Uncaught(ExtractTryRaises(reply), {"JSONDecodeError"}), Exceptions)

----------------------------------------------------------------------------
(* Direct callers of the cache service *)

SomeSource ==
    [source_type |-> "arxiv_paper", title |-> "rag", url |-> "arxiv/1", author |-> "a1",
     relevance_score |-> 0]

ClientSearch(c) ==
    /\ Idle(c) /\ calls < MaxCalls
    /\ \E q \in Queries : call' = [call EXCEPT ![c] = BeginSearch(c, q)]
    /\ calls' = calls + 1
    /\ writes' = [writes EXCEPT ![c] = 0]
    /\ UNCHANGED <<cache, cacheSeq, kb, kbSeq, now, ks, task, started, lastStore, svc, db>>

ClientStore(c) ==
    /\ Idle(c) /\ calls < MaxCalls
    /\ \E q \in Queries, r \in {"answer"}, s \in {<<SomeSource>>} :
          call' = [call EXCEPT ![c] = BeginStore(c, q, r, s)]
    /\ calls' = calls + 1
    /\ writes' = [writes EXCEPT ![c] = 0]
    /\ UNCHANGED <<cache, cacheSeq, kb, kbSeq, now, ks, task, started, lastStore, svc, db>>

ClientClear(c) ==
    /\ Idle(c) /\ calls < MaxCalls
    /\ ClearCache(c)
    /\ calls' = calls + 1
    /\ writes' = [writes EXCEPT ![c] = IF cache' = cache THEN 0 ELSE 1]
    /\ UNCHANGED <<cacheSeq, kb, kbSeq, now, ks, task, started, svc, db>>

----------------------------------------------------------------------------
(* Pipeline orchestrator: SearchOrchestrator.search, one action per await *)

\* the responder's not-found text instead of the orchestrator's
NotFoundTextOfResponder ==
    "I couldn't find relevant information to answer your question. Try rephrasing your query or asking about a different topic related to AI and machine learning research."

NotFoundText ==
    "I couldn't find relevant information to answer your question. Try rephrasing your query or asking about a different topic."

\* the locals of an invocation that has not started
NoTask ==
    \* trace: the service calls made so far; stored: what cache.store was given
    \* and the identifier it returned; prior: the rows stored by the invocations
    \* that had answered the same query from a lower tier when this one began;
    \* error: the call whose exception ended the invocation, and the exception
    \* passed: the keyword lists given to the knowledge search and to the
    \* external search; generation: what the text generation call answered
    [pc |-> "idle", query |-> <<>>, keywords |-> <<>>, cached |-> <<>>,
     vector_results |-> <<>>, mcp_results |-> <<>>, ingest_ids |-> <<>>,
     response_text |-> "", sources |-> <<>>, result |-> <<>>, trace |-> <<>>,
     stored |-> <<>>, prior |-> {}, error |-> <<>>, passed |-> <<>>,
     generation |-> <<>>]

\* the envelope carries the words of the query instead of the extracted keywords
SearchResponseQueryWords(query, response, sources, search_path, keywords) ==
    [query |-> query, response |-> response, sources |-> sources,
     search_path |-> search_path, keywords |-> FallbackKeywords(query)]

\* SearchResponse(...)
SearchResponse(query, response, sources, search_path, keywords) ==
    [query |-> query, response |-> response, sources |-> sources,
     search_path |-> search_path, keywords |-> keywords]

\* The steps of an invocation that read and write no table: the extractor, the
\* external providers, the text generation, building the response.  Such a step
\* commutes with every step of another invocation, so an invocation that is at
\* one takes it before any other invocation moves.
AtLocalStep(p) ==
    \/ task[p].pc \in {"extract", "search_all", "generate"}
    \/ task[p].pc = "cache_search" /\ call[p].pc = "returned" /\ call[p].entry # <<>>
    \/ task[p].pc = "cache_store" /\ call[p].pc = "returned"

Turn(p) ==
    \A q \in Procs \ {p} : ~AtLocalStep(q)

\* the identifiers of the rows stored by the invocations that have returned an
\* answer to query with tag vector_db or mcp
PriorAnswers(query) ==
    {task[o].stored[1].id :
        o \in {x \in Procs : /\ task[x].result # <<>>
                              /\ task[x].stored # <<>>
                              /\ task[x].query = query}}

\* a request arrives: search(request) is entered
Start(p) ==
    /\ Turn(p)
    /\ task[p].pc = "idle" \/ (task[p].pc \in {"done", "failed"} /\ p \in Sequential)
    /\ started < MaxInvocations
    /\ \E q \in PipelineQueries : task' = [task EXCEPT ![p] =
              [NoTask EXCEPT !.pc = "extract", !.query = q, !.prior = PriorAnswers(q)]]
    /\ started' = started + 1
    /\ writes' = [writes EXCEPT ![p] = 0]
    /\ call' = [call EXCEPT ![p] = NoCall]
    /\ UNCHANGED <<cache, cacheSeq, kb, kbSeq, now, ks, calls, lastStore, svc, db>>

\* keywords = (await extractor.extract(query)).keywords; cache.search(query) is called
Extract(p) ==
    /\ Turn(p)
    /\ task[p].pc = "extract"
    /\ \E keywords \in extract(task[p].query) :
          task' = [task EXCEPT ![p].keywords = keywords, ![p].pc = "cache_search",
                               ![p].trace = @ \o <<"extract", "cache.search">>]
    /\ call' = [call EXCEPT ![p] = BeginSearch(p, task[p].query)]
    /\ UNCHANGED <<cache, cacheSeq, kb, kbSeq, now, ks, started, calls,
                   lastStore, writes, svc, db>>

\* the hit is not returned: the invocation goes on to the knowledge search
CacheHitFallsThrough(p) ==
    /\ Turn(p)
    /\ task[p].pc = "cache_search"
    /\ call[p].pc = "returned"
    /\ call[p].entry # <<>>
    /\ \E results \in VectorSearch(kb, task[p].keywords, <<>>,
                                    min_similarity, now) :
          task' = [task EXCEPT ![p].cached = call[p].entry,
                               ![p].vector_results = results,
                               ![p].trace = @ \o <<"vector_store.search">>,
                               ![p].passed = @ \o <<[to |-> "vector_store.search",
                                                     keywords |-> task[p].keywords]>>,
                               ![p].pc = IF results # <<>> THEN "generate" ELSE "search_all"]
    /\ call' = [call EXCEPT ![p] = NoCall]
    /\ UNCHANGED <<cache, cacheSeq, kb, kbSeq, now, ks, started, calls, lastStore, writes, svc, db>>

\* if cached: return SearchResponse(..., search_path=CACHE)
CacheHit(p) ==
    /\ Turn(p)
    /\ task[p].pc = "cache_search"
    /\ call[p].pc = "returned"
    /\ call[p].entry # <<>>
    /\ task' = [task EXCEPT ![p].cached = call[p].entry, ![p].pc = "done",
                            ![p].result = <<SearchResponse(task[p].query,
                                call[p].entry[1].response_text, call[p].entry[1].sources,
                                "cache", task[p].keywords)>>]
    /\ call' = [call EXCEPT ![p] = NoCall]
    /\ UNCHANGED <<cache, cacheSeq, kb, kbSeq, now, ks, started, calls, lastStore, writes, svc, db>>

\* the external tier is tried whatever the knowledge search returned
SearchKnowledgeThenExternal(p) ==
    /\ Turn(p)
    /\ task[p].pc = "cache_search"
    /\ call[p].pc = "returned"
    /\ call[p].entry = <<>>
    /\ \E results \in VectorSearch(kb, task[p].keywords, <<>>,
                                    min_similarity, now) :
          task' = [task EXCEPT ![p].cached = call[p].entry,
                               ![p].vector_results = results,
                               ![p].trace = @ \o <<"vector_store.search">>,
                               ![p].passed = @ \o <<[to |-> "vector_store.search",
                                                     keywords |-> task[p].keywords]>>,
                               ![p].pc = "search_all"]
    /\ call' = [call EXCEPT ![p] = NoCall]
    /\ UNCHANGED <<cache, cacheSeq, kb, kbSeq, now, ks, started, calls, lastStore, writes, svc, db>>

\* vector_results = await vector_store.search(keywords)
SearchKnowledge(p) ==
    /\ Turn(p)
    /\ task[p].pc = "cache_search"
    /\ call[p].pc = "returned"
    /\ call[p].entry = <<>>
    /\ \E results \in VectorSearch(kb, task[p].keywords, <<>>,
                                    min_similarity, now) :
          task' = [task EXCEPT ![p].cached = call[p].entry,
                               ![p].vector_results = results,
                               ![p].trace = @ \o <<"vector_store.search">>,
                               ![p].passed = @ \o <<[to |-> "vector_store.search",
                                                     keywords |-> task[p].keywords]>>,
                               ![p].pc = IF results # <<>> THEN "generate" ELSE "search_all"]
    /\ call' = [call EXCEPT ![p] = NoCall]
    /\ UNCHANGED <<cache, cacheSeq, kb, kbSeq, now, ks, started, calls, lastStore, writes, svc, db>>

\* mcp_results = await mcp_client.search_all(keywords); without results the
\* not-found response is returned
SearchExternal(p) ==
    /\ Turn(p)
    /\ task[p].pc = "search_all"
    /\ \E arxiv_reply \in ArxivReplies, hf_reply \in HFReplies :
          LET mcp_results == search_all(task[p].keywords, max_results_per_source,
                                        arxiv_reply, hf_reply)
          IN  task' = [task EXCEPT
                  ![p].mcp_results = mcp_results,
                  ![p].trace = @ \o <<"mcp_client.search_all">>,
                  ![p].passed = @ \o <<[to |-> "mcp_client.search_all",
                                        keywords |-> task[p].keywords]>>,
                  ![p].pc = IF mcp_results # <<>> THEN "ingest" ELSE "done",
                  ![p].result = IF mcp_results # <<>> THEN <<>>
                                ELSE <<SearchResponse(task[p].query, NotFoundText, <<>>,
                                                      "not_found", task[p].keywords)>>]
    /\ UNCHANGED <<cache, cacheSeq, kb, kbSeq, now, ks, started, call, calls,
                   lastStore, writes, svc, db>>

\* the batch stops after its first item
IngestFirstOnly(p) ==
    /\ Turn(p)
    /\ task[p].pc = "ingest"
    /\ kbSeq' = kbSeq + 1
    /\ kb' = InsertDocument(kb, kbSeq', task[p].mcp_results[Len(task[p].ingest_ids) + 1], now)
    /\ task' = [task EXCEPT
            ![p].ingest_ids = @ \o <<kbSeq'>>,
            ![p].trace = @ \o <<"vector_store.ingest">>,
            ![p].pc = "generate"]
    /\ writes' = [writes EXCEPT ![p] = IF kb' = kb THEN @ ELSE @ + 1]
    /\ UNCHANGED <<cache, cacheSeq, now, ks, started, call, calls, lastStore, svc, db>>

\* ingest_batch: knowledge_id = await self.ingest(item), for the next item
Ingest(p) ==
    /\ Turn(p)
    /\ task[p].pc = "ingest"
    /\ kbSeq' = kbSeq + 1
    /\ kb' = InsertDocument(kb, kbSeq', task[p].mcp_results[Len(task[p].ingest_ids) + 1], now)
    /\ task' = [task EXCEPT
            ![p].ingest_ids = @ \o <<kbSeq'>>,
            ![p].trace = @ \o <<"vector_store.ingest">>,
            ![p].pc = IF Len(task[p].ingest_ids) + 1 = Len(task[p].mcp_results)
                      THEN "generate" ELSE "ingest"]
    /\ writes' = [writes EXCEPT ![p] = IF kb' = kb THEN @ ELSE @ + 1]
    /\ UNCHANGED <<cache, cacheSeq, now, ks, started, call, calls, lastStore, svc, db>>

\* a failed generation is answered at once: its message is not stored
GenerateFailureNotStored(p) ==
    /\ Turn(p)
    /\ task[p].pc = "generate"
    /\ \E llm \in LLMReplies :
          LET out == generate_response(task[p].query, task[p].vector_results,
                                       task[p].mcp_results, llm)
          IN  IF LLMTryRaises(llm) = <<>>
              THEN /\ task' = [task EXCEPT ![p].response_text = out[1],
                                           ![p].sources = out[2],
                                           ![p].generation = <<llm>>,
                                           ![p].trace = @ \o <<"responder.generate_response",
                                                               "cache.store">>,
                                           ![p].pc = "cache_store"]
                   /\ call' = [call EXCEPT ![p] = BeginStore(p, task[p].query, out[1], out[2])]
              ELSE /\ task' = [task EXCEPT ![p].response_text = out[1],
                                           ![p].sources = out[2],
                                           ![p].generation = <<llm>>,
                                           ![p].trace = @ \o <<"responder.generate_response">>,
                                           ![p].pc = "done",
                                           ![p].result = <<SearchResponse(task[p].query,
                                               out[1], out[2], IF task[p].vector_results # <<>>
                                                               THEN "vector_db" ELSE "mcp",
                                               task[p].keywords)>>]
                   /\ call' = call
    /\ UNCHANGED <<cache, cacheSeq, kb, kbSeq, now, ks, started, calls,
                   lastStore, writes, svc, db>>

\* response_text, sources = await responder.generate_response(...);
\* cache.store(query, response_text, sources) is called
Generate(p) ==
    /\ Turn(p)
    /\ task[p].pc = "generate"
    /\ \E llm \in LLMReplies :
          LET out == generate_response(task[p].query, task[p].vector_results,
                                       task[p].mcp_results, llm)
          IN  /\ task' = [task EXCEPT ![p].response_text = out[1], ![p].sources = out[2],
                                      ![p].generation = <<llm>>,
                                      ![p].trace = @ \o <<"responder.generate_response",
                                                          "cache.store">>,
                                      ![p].pc = "cache_store"]
              /\ call' = [call EXCEPT ![p] = BeginStore(p, task[p].query, out[1], out[2])]
    /\ UNCHANGED <<cache, cacheSeq, kb, kbSeq, now, ks, started, calls,
                   lastStore, writes, svc, db>>

\* the two tags exchanged
BranchPathSwapped(t) ==
    IF t.vector_results # <<>> THEN "mcp" ELSE "vector_db"

\* the branch the invocation is in when the store returns
BranchPath(t) ==
    IF t.vector_results # <<>> THEN "vector_db" ELSE "mcp"

\* return SearchResponse(..., search_path=VECTOR_DB or MCP)
Return(p) ==
    /\ Turn(p)
    /\ task[p].pc = "cache_store"
    /\ call[p].pc = "returned"
    /\ task' = [task EXCEPT ![p].pc = "done",
                            ![p].stored = @ \o <<[id |-> call[p].cache_id,
                                query |-> call[p].query, response |-> call[p].response,
                                sources |-> call[p].sources]>>,
                            ![p].result = <<SearchResponse(task[p].query,
                                task[p].response_text, task[p].sources,
                                BranchPath(task[p]), task[p].keywords)>>]
    /\ call' = [call EXCEPT ![p] = NoCall]
    /\ UNCHANGED <<cache, cacheSeq, kb, kbSeq, now, ks, started, calls, lastStore, writes, svc, db>>

\* the exception is answered with the not-found response
RaiseAnswered(t, failed_call, kind) ==
    [t EXCEPT !.pc = "done", !.error = <<[call |-> failed_call, raised |-> kind]>>,
              !.result = <<SearchResponse(t.query, NotFoundText, <<>>, "not_found",
                                          t.keywords)>>]

\* search(request) has no handler: the exception of an awaited call leaves
\* it, and the invocation ends without a response
Raise(t, failed_call, kind) ==
    [t EXCEPT !.pc = "failed", !.error = <<[call |-> failed_call, raised |-> kind]>>]

\* get_embedding raises in cache.search, vector_store.search, an ingest of
\* ingest_batch, or cache.store
EmbeddingFails(p) ==
    /\ \/ /\ task[p].pc = "extract"
          /\ \E keywords \in extract(task[p].query) :
                task' = [task EXCEPT ![p] =
                    Raise([task[p] EXCEPT !.keywords = keywords,
                                          !.trace = @ \o <<"extract", "cache.search">>],
                          "cache.search", "EmbeddingError")]
       \/ /\ task[p].pc = "cache_search"
          /\ call[p].pc = "returned"
          /\ call[p].entry = <<>>
          /\ task[p].keywords # <<>>
          /\ task' = [task EXCEPT ![p] =
                    Raise([task[p] EXCEPT !.trace = @ \o <<"vector_store.search">>,
                                          !.passed = @ \o <<[to |-> "vector_store.search",
                                                             keywords |-> task[p].keywords]>>],
                          "vector_store.search", "EmbeddingError")]
       \/ /\ task[p].pc = "ingest"
          /\ task' = [task EXCEPT ![p] =
                    Raise([task[p] EXCEPT !.trace = @ \o <<"vector_store.ingest">>],
                          "vector_store.ingest", "EmbeddingError")]
       \/ /\ task[p].pc = "generate"
          /\ \E llm \in LLMReplies :
                LET out == generate_response(task[p].query, task[p].vector_results,
                                             task[p].mcp_results, llm)
                IN  task' = [task EXCEPT ![p] =
                        Raise([task[p] EXCEPT !.response_text = out[1], !.sources = out[2],
                                   !.generation = <<llm>>,
                                   !.trace = @ \o <<"responder.generate_response",
                                                    "cache.store">>],
                              "cache.store", "EmbeddingError")]
    /\ call' = [call EXCEPT ![p] = NoCall]
    /\ UNCHANGED <<cache, cacheSeq, kb, kbSeq, now, ks, svc, started, calls, lastStore,
                   writes, db>>

\* the ingests and the store of an invocation run in one transaction: a
\* failure removes the documents the invocation has ingested
StorageFailsRolledBack(p) ==
    /\ \/ /\ task[p].pc = "ingest"
          /\ task' = [task EXCEPT ![p] =
                    Raise([task[p] EXCEPT !.trace = @ \o <<"vector_store.ingest">>],
                          "vector_store.ingest", "PostgresError")]
       \/ /\ task[p].pc = "cache_store"
          /\ call[p].pc = "store_insert"
          /\ task' = [task EXCEPT ![p] = Raise(task[p], "cache.store", "PostgresError")]
    /\ kb' = {r \in kb : \A i \in 1..Len(task[p].ingest_ids) : r.id # task[p].ingest_ids[i]}
    /\ call' = [call EXCEPT ![p] = NoCall]
    /\ UNCHANGED <<cache, cacheSeq, kbSeq, now, ks, svc, started, calls, lastStore,
                   writes, db>>

\* a statement of cache.search, vector_store.search, an ingest of ingest_batch
\* or cache.store raises, or no connection is to be had for it
StorageFails(p) ==
    /\ \/ /\ task[p].pc = "cache_search"
          /\ call[p].pc \in {"search_select", "search_update"}
          /\ task' = [task EXCEPT ![p] = Raise(task[p], "cache.search", "PostgresError")]
       \/ /\ task[p].pc = "cache_search"
          /\ call[p].pc = "returned"
          /\ call[p].entry = <<>>
          /\ task[p].keywords # <<>>
          /\ task' = [task EXCEPT ![p] =
                    Raise([task[p] EXCEPT !.trace = @ \o <<"vector_store.search">>,
                                          !.passed = @ \o <<[to |-> "vector_store.search",
                                                             keywords |-> task[p].keywords]>>],
                          "vector_store.search", "PostgresError")]
       \/ /\ task[p].pc = "ingest"
          /\ task' = [task EXCEPT ![p] =
                    Raise([task[p] EXCEPT !.trace = @ \o <<"vector_store.ingest">>],
                          "vector_store.ingest", "PostgresError")]
       \/ /\ task[p].pc = "cache_store"
          /\ call[p].pc = "store_insert"
          /\ task' = [task EXCEPT ![p] = Raise(task[p], "cache.store", "PostgresError")]
    /\ call' = [call EXCEPT ![p] = NoCall]
    /\ UNCHANGED <<cache, cacheSeq, kb, kbSeq, now, ks, svc, started, calls, lastStore,
                   writes, db>>

\* DELETE /admin/cache: the handler calls cache_service.clear() and answers
AdminClear ==
    /\ \A p \in Procs : ~AtLocalStep(p)
    /\ cache' = DeleteAll(cache)
    /\ lastStore' = <<>>
    /\ UNCHANGED <<cacheSeq, kb, kbSeq, now, ks, task, started, call, calls, writes, svc, db>>

----------------------------------------------------------------------------
(* Specifications *)

\* a document ingested by hand (POST /ingest) forty days ago
ManualItem ==
    [content |-> <<"manual", "note", "llm">>, source_type |-> "manual",
     source_url |-> "", source_title |-> <<"note">>, source_author |-> <<>>,
     metadata |-> <<>>]

Today == 40

\* no direct search has been made
NoProbe ==
    [op |-> "none", keywords |-> <<>>, limit |-> <<>>, min_sim |-> 0, embedded |-> <<>>,
     queries |-> <<>>, fetched |-> <<>>, requests |-> <<>>, items |-> <<>>]

\* no other service function has been called directly
NoService ==
    [op |-> "none"]

\* the coroutines that call get_pool and close_pool
PoolCallers == {"r1", "r2", "r3"}

MaxPools == 2

\* a coroutine outside get_pool and close_pool: got is the pool its latest
\* get_pool returned and the number of close_pool calls completed by then
NoPoolCall ==
    [pc |-> "idle", closing |-> <<>>, got |-> <<>>]

\* _pool: Optional[asyncpg.Pool] = None; no pool has been created
NoPool ==
    [pool |-> <<>>, created |-> 0, closed |-> {}, closes |-> 0,
     co |-> [c \in PoolCallers |-> NoPoolCall]]

\* get_pool up to its first suspension: with a pool set it returns it at
\* once; with _pool None it awaits asyncpg.create_pool
GetPool(c) ==
    /\ db.co[c].pc = "idle"
    /\ IF db.pool # <<>>
       THEN db' = [db EXCEPT !.co[c].got = <<[pool |-> db.pool[1], closes |-> db.closes]>>]
       ELSE /\ db.created + Cardinality({o \in PoolCallers : db.co[o].pc = "creating"})
                   < MaxPools
            /\ db' = [db EXCEPT !.co[c].pc = "creating"]
    /\ UNCHANGED <<cache, cacheSeq, kb, kbSeq, now, task, started, call, calls, lastStore,
                   writes, ks, svc>>

\* create_pool has returned: cls._pool = <the new pool>; return cls._pool
PoolCreated(c) ==
    /\ db.co[c].pc = "creating"
    /\ db' = [db EXCEPT !.created = @ + 1,
                        !.pool = <<db.created + 1>>,
                        !.co[c].pc = "idle",
                        !.co[c].got = <<[pool |-> db.created + 1, closes |-> db.closes]>>]
    /\ UNCHANGED <<cache, cacheSeq, kb, kbSeq, now, task, started, call, calls, lastStore,
                   writes, ks, svc>>

\* close_pool up to its suspension: with _pool None it returns; else it
\* awaits cls._pool.close()
ClosePool(c) ==
    /\ db.co[c].pc = "idle"
    /\ db.pool # <<>>
    /\ db.closes < MaxPools
    /\ db' = [db EXCEPT !.co[c].pc = "closing", !.co[c].closing = db.pool]
    /\ UNCHANGED <<cache, cacheSeq, kb, kbSeq, now, task, started, call, calls, lastStore,
                   writes, ks, svc>>

\* close() has returned: cls._pool = None
PoolClosed(c) ==
    /\ db.co[c].pc = "closing"
    /\ db' = [db EXCEPT !.closed = @ \cup {db.co[c].closing[1]},
                        !.closes = @ + 1,
                        !.pool = <<>>,
                        !.co[c].pc = "idle",
                        !.co[c].closing = <<>>]
    /\ UNCHANGED <<cache, cacheSeq, kb, kbSeq, now, task, started, call, calls, lastStore,
                   writes, ks, svc>>

Init ==
    /\ cache = {}
    /\ cacheSeq = 0
    /\ \E n \in {0, 1} :
          /\ kbSeq = n
          /\ kb = IF n = 0 THEN {} ELSE InsertDocument({}, 1, ManualItem, 0)
    /\ now = Today
    /\ task = [p \in Procs |-> NoTask]
    /\ started = 0
    /\ call = [x \in Callers |-> NoCall]
    /\ calls = 0
    /\ lastStore = <<>>
    /\ writes = [x \in Callers |-> 0]
    /\ ks = NoProbe
    /\ svc = NoService
    /\ db = NoPool

\* the cache service called directly
InitCache ==
    Init

NextCache ==
    \E c \in Clients :
        \/ ClientSearch(c)
        \/ ClientStore(c)
        \/ ClientClear(c)
        \/ SearchSelect(c)
        \/ SearchUpdate(c)
        \/ StoreInsert(c)

SpecCache == InitCache /\ [][NextCache]_vars

----------------------------------------------------------------------------
(* Cache statistics: SemanticCacheService.get_stats *)

\* SUM(hit_count): NULL over no rows
RECURSIVE SumHitCount(_)
SumHitCount(table) ==
    IF table = {} THEN <<>>
    ELSE LET r == CHOOSE x \in table : TRUE
             rest == SumHitCount(table \ {r})
         IN  <<r.hit_count + (IF rest = <<>> THEN 0 ELSE rest[1])>>

\* AVG(hit_count): NULL over no rows, else the quotient of the sum by the
\* number of rows, kept as a fraction
AvgHitCount(table) ==
    IF table = {} THEN <<>>
    ELSE <<[num |-> SumHitCount(table)[1], den |-> Cardinality(table)]>>

Coalesce(value, default) ==
    IF value = <<>> THEN default ELSE value[1]

ZeroAverage ==
    [num |-> 0, den |-> 1]

\* the SELECT without COALESCE: float(None) raises on the empty table
GetStatsNoCoalesce(table) ==
    [raised |-> IF table = {} THEN <<"TypeError">> ELSE <<>>,
     total_entries |-> Cardinality(table),
     total_hits |-> Coalesce(SumHitCount(table), 0),
     avg_hits_per_entry |-> Coalesce(AvgHitCount(table), ZeroAverage)]

\* get_stats: SELECT COUNT(*), COALESCE(SUM(hit_count), 0),
\* COALESCE(AVG(hit_count), 0) FROM semantic_cache
get_stats(table) ==
    [raised |-> <<>>,
     total_entries |-> Cardinality(table),
     total_hits |-> Coalesce(SumHitCount(table), 0),
     avg_hits_per_entry |-> Coalesce(AvgHitCount(table), ZeroAverage)]

StatsClients == {"c1"}

\* cache.get_stats(): one SELECT over the table as it is
ClientStats ==
    /\ svc' = [op |-> "get_stats", table |-> cache, stats |-> get_stats(cache)]
    /\ svc' # svc
    /\ UNCHANGED <<cache, cacheSeq, kb, kbSeq, now, task, started, call, calls, lastStore,
                   writes, ks, db>>

\* one client searches, stores and clears while the statistics are read
NextStats ==
    \/ \E c \in StatsClients :
          \/ ClientSearch(c)
          \/ ClientStore(c)
          \/ ClientClear(c)
          \/ SearchSelect(c)
          \/ SearchUpdate(c)
          \/ StoreInsert(c)
    \/ ClientStats

SpecStats == InitCache /\ [][NextStats]_vars

\* coroutines of one event loop call get_pool and close_pool
NextPool ==
    \E c \in PoolCallers :
        \/ GetPool(c)
        \/ PoolCreated(c)
        \/ ClosePool(c)
        \/ PoolClosed(c)

SpecPool == Init /\ [][NextPool]_vars

Next ==
    \/ \E p \in Procs :
          \/ Start(p)
          \/ Extract(p)
          \/ Turn(p) /\ SearchSelect(p)
          \/ Turn(p) /\ SearchUpdate(p)
          \/ CacheHit(p)
          \/ SearchKnowledge(p)
          \/ SearchExternal(p)
          \/ Ingest(p)
          \/ Generate(p)
          \/ Turn(p) /\ StoreInsert(p)
          \/ Return(p)
    \/ AdminClear

Spec == Init /\ [][Next]_vars

\* The pipeline with failing embedding and storage calls: the requests are
\* served one after the other.
NextFaults ==
    \/ \E p \in Sequential :
          \/ Start(p)
          \/ Extract(p)
          \/ SearchSelect(p)
          \/ SearchUpdate(p)
          \/ CacheHit(p)
          \/ SearchKnowledge(p)
          \/ SearchExternal(p)
          \/ Ingest(p)
          \/ Generate(p)
          \/ StoreInsert(p)
          \/ Return(p)
          \/ EmbeddingFails(p)
          \/ StorageFails(p)
    \/ AdminClear

SpecFaults == Init /\ [][NextFaults]_vars

----------------------------------------------------------------------------
(* The knowledge and external tiers called directly *)

MaxDocs == 3
MaxAge == 30
MaxLimit == 2

\* a note whose text is the query itself
RagItem ==
    [content |-> QRag, source_type |-> "manual", source_url |-> "",
     source_title |-> <<"rag">>, source_author |-> <<>>, metadata |-> <<>>]

\* the documents POST /ingest is given
IngestItems ==
    {RagItem, ManualItem, parse_arxiv_response(<<ArxivEntry1>>)[1]}

\* the keyword lists the searches are given
KeywordLists ==
    {<<>>, <<QRag>>, <<<<"what">>, QRag>>}

\* the limits the knowledge search is given: None, or a number
Limits ==
    {<<>>} \cup {<<n>> : n \in 0..MaxLimit}

\* the similarity thresholds the knowledge search is given: the default, 0.97
MinSimilarities ==
    {min_similarity, 9700}

\* the days that pass between two calls
Steps ==
    {10, 20}

\* POST /ingest: vector_service.ingest(item)
DirectIngest ==
    /\ ks.op = "none"
    /\ get_count(kb) < MaxDocs
    /\ \E item \in IngestItems :
          /\ kbSeq' = kbSeq + 1
          /\ kb' = InsertDocument(kb, kbSeq', item, now)
    /\ UNCHANGED <<cache, cacheSeq, now, task, started, call, calls, lastStore, writes, ks, svc, db>>

\* days pass
Tick ==
    /\ ks.op = "none"
    /\ \E d \in Steps :
          /\ now + d <= Today + MaxAge
          /\ now' = now + d
    /\ UNCHANGED <<cache, cacheSeq, kb, kbSeq, task, started, call, calls, lastStore,
                   writes, ks, svc, db>>

\* vector_store.search(keywords, limit) is called and returns
ProbeKnowledge ==
    /\ ks.op = "none"
    /\ \E keywords \in KeywordLists, limit \in Limits, min_sim \in MinSimilarities :
          \E run \in VectorSearchRuns(kb, keywords, limit, min_sim, now) :
             ks' = [op |-> "vector_store.search", keywords |-> keywords, limit |-> limit,
                    min_sim |-> min_sim, embedded |-> run.embedded, queries |-> run.queries,
                    fetched |-> run.fetched, requests |-> <<>>, items |-> run.items]
    /\ UNCHANGED <<cache, cacheSeq, kb, kbSeq, now, task, started, call, calls,
                   lastStore, writes, svc, db>>

\* mcp_client.search_arxiv(keywords, max_results) is called and returns
ProbeArxiv ==
    /\ ks.op = "none"
    /\ \E keywords \in KeywordLists, reply \in ArxivReplies :
          ks' = [op |-> "search_arxiv", keywords |-> keywords,
                 limit |-> <<max_results_per_source>>, min_sim |-> 0, embedded |-> <<>>,
                 queries |-> <<>>, fetched |-> <<>>,
                 requests |-> ArxivRequests(keywords, max_results_per_source),
                 items |-> search_arxiv(keywords, max_results_per_source, reply)]
    /\ UNCHANGED <<cache, cacheSeq, kb, kbSeq, now, task, started, call, calls,
                   lastStore, writes, svc, db>>

\* mcp_client.search_huggingface(keywords, max_results) is called and returns
ProbeHuggingface ==
    /\ ks.op = "none"
    /\ \E keywords \in KeywordLists, reply \in HFReplies :
          ks' = [op |-> "search_huggingface", keywords |-> keywords,
                 limit |-> <<max_results_per_source>>, min_sim |-> 0, embedded |-> <<>>,
                 queries |-> <<>>, fetched |-> <<>>,
                 requests |-> HFRequests(keywords, max_results_per_source),
                 items |-> search_huggingface(keywords, max_results_per_source, reply)]
    /\ UNCHANGED <<cache, cacheSeq, kb, kbSeq, now, task, started, call, calls,
                   lastStore, writes, svc, db>>

\* the caller has its answer; the next call can be made
ProbeDone ==
    /\ ks.op # "none"
    /\ ks' = NoProbe
    /\ UNCHANGED <<cache, cacheSeq, kb, kbSeq, now, task, started, call, calls,
                   lastStore, writes, svc, db>>

InitKnowledge ==
    Init /\ kb = {}

NextKnowledge ==
    \/ DirectIngest
    \/ Tick
    \/ ProbeKnowledge
    \/ ProbeArxiv
    \/ ProbeHuggingface
    \/ ProbeDone

SpecKnowledge == InitKnowledge /\ [][NextKnowledge]_vars

----------------------------------------------------------------------------
(* The other service functions called directly *)

MaxBatch == 2

\* the offsets from UTC of the timestamps scored: no tzinfo, UTC, UTC+9
Offsets ==
    {<<>>, <<0>>, <<9>>}

\* the timestamps scored: the clock of now and the clock an hour later, set
\* back by every number of days from a day ahead to a day past MaxAge
Timestamps(today) ==
    {[wall |-> today * HoursPerDay - d * HoursPerDay + h, tz |-> o] :
        d \in -1..(MaxAge + 1), h \in {0, 1}, o \in Offsets}

\* the batches ingest_batch is given
Batches ==
    UNION {[1..n -> IngestItems] : n \in 0..MaxBatch}

\* the outcomes of the ingests of a batch of n: all succeed, or the one at
\* fail_at ends in the exception kind
Outcomes(n, fail_at, kind) ==
    [i \in 1..n |-> IF i = fail_at THEN kind ELSE "ok"]

\* a response with one entry more than max_results_per_source
ArxivIds ==
    <<"arxiv/1", "arxiv/2", "arxiv/3", "arxiv/4">>

ManyEntries ==
    [i \in 1..(max_results_per_source + 1) |-> [ArxivEntry1 EXCEPT !.id = ArxivIds[i]]]

HFIds ==
    <<"bert", "gpt2", "t5", "llama">>

ManyModels ==
    [i \in 1..(max_results_per_source + 1) |-> [HFModel1 EXCEPT !.modelId = HFIds[i]]]

\* what the requests of the direct calls may come to
ArxivServiceReplies ==
    ArxivReplies \cup
        {[status |-> "TimeoutException", entries |-> <<>>],
         [status |-> "HTTPStatusError", entries |-> <<>>],
         [status |-> "ParseError", entries |-> <<>>],
         [status |-> "ok", entries |-> ManyEntries]}

HFServiceReplies ==
    HFReplies \cup
        {[status |-> "TimeoutException", models |-> <<>>],
         [status |-> "HTTPStatusError", models |-> <<>>],
         [status |-> "JSONDecodeError", models |-> <<>>],
         [status |-> "ok", models |-> ManyModels]}

LLMServiceReplies ==
    LLMReplies \cup
        {[raised |-> <<"RateLimitError">>, content |-> <<>>],
         [raised |-> <<>>, content |-> <<>>]}

\* the queries generate_response is given: the empty text, Latin words, and
\* words with characters in and next to the Hangul syllable block
ServiceQueries ==
    PipelineQueries \cup
        {<<>>, <<"ga">>, <<"hih">>, <<"geomsaek">>, <<"what", "is", "rag_geomsaek">>,
         <<"jamo">>, <<"below">>, <<"above">>}

\* an entry whose abstract is longer than the context keeps of a content
ArxivLongEntry ==
    [ArxivEntry1 EXCEPT !.id = "arxiv/long",
                        !.summary = [i \in 1..(ContextChars + 1) |-> "x"]]

GenerateArxivReplies ==
    ArxivReplies \cup {[status |-> "ok", entries |-> <<ArxivLongEntry>>]}

\* the numbers of results per source asked for
PerSource ==
    (1..MaxLimit) \cup {max_results_per_source}

\* calculate_recency_score(created_at) is called and returns
CallRecency ==
    /\ svc.op = "none"
    /\ \E created_at \in Timestamps(now) :
          svc' = [op |-> "calculate_recency_score", created_at |-> created_at,
                  out |-> RecencyOfTimestamp(created_at, now)]
    /\ UNCHANGED <<cache, cacheSeq, kb, kbSeq, now, task, started, call, calls, lastStore,
                   writes, ks, db>>

\* vector_store.ingest(item) is called and returns or raises
CallIngest ==
    /\ svc.op = "none"
    /\ get_count(kb) < MaxDocs
    /\ \E item \in IngestItems, outcome \in IngestOutcomes :
          LET out == ingest(kb, kbSeq, item, now, outcome)
          IN  /\ kb' = out.kb
              /\ kbSeq' = out.kbSeq
              /\ svc' = [op |-> "ingest", item |-> item, before |-> kb,
                         raised |-> out.raised, id |-> out.id]
    /\ UNCHANGED <<cache, cacheSeq, now, task, started, call, calls, lastStore, writes, ks, db>>

\* vector_store.ingest_batch(items) is called and returns or raises
CallIngestBatch ==
    /\ svc.op = "none"
    /\ \E items \in Batches :
          /\ get_count(kb) + Len(items) <= MaxDocs
          /\ \E fail_at \in 0..Len(items), kind \in IngestOutcomes \ {"ok"} :
                LET out == ingest_batch(kb, kbSeq, items, now,
                                        Outcomes(Len(items), fail_at, kind))
                IN  /\ kb' = out.kb
                    /\ kbSeq' = out.kbSeq
                    /\ svc' = [op |-> "ingest_batch", items |-> items, fail_at |-> fail_at,
                               before |-> kb, raised |-> out.raised, ids |-> out.ids]
    /\ UNCHANGED <<cache, cacheSeq, now, task, started, call, calls, lastStore, writes, ks, db>>

\* mcp_client.search_arxiv(keywords, max_results) is called and returns or raises
CallArxiv ==
    /\ svc.op = "none"
    /\ \E keywords \in KeywordLists, max_results \in PerSource,
          reply \in ArxivServiceReplies :
          svc' = [op |-> "search_arxiv", keywords |-> keywords,
                  max_results |-> max_results, reply |-> reply,
                  raised |-> search_arxiv_raises(keywords, max_results, reply),
                  items |-> search_arxiv(keywords, max_results, reply)]
    /\ UNCHANGED <<cache, cacheSeq, kb, kbSeq, now, task, started, call, calls, lastStore,
                   writes, ks, db>>

\* mcp_client.search_huggingface(keywords, max_results) is called and returns or raises
CallHuggingface ==
    /\ svc.op = "none"
    /\ \E keywords \in KeywordLists, max_results \in PerSource,
          reply \in HFServiceReplies :
          svc' = [op |-> "search_huggingface", keywords |-> keywords,
                  max_results |-> max_results, reply |-> reply,
                  raised |-> search_huggingface_raises(keywords, max_results, reply),
                  items |-> search_huggingface(keywords, max_results, reply)]
    /\ UNCHANGED <<cache, cacheSeq, kb, kbSeq, now, task, started, call, calls, lastStore,
                   writes, ks, db>>

\* mcp_client.search_all(keywords, max_results_per_source) is called and returns
CallSearchAll ==
    /\ svc.op = "none"
    /\ \E keywords \in KeywordLists, per_source \in PerSource,
          arxiv_reply \in ArxivServiceReplies, hf_reply \in HFServiceReplies :
          svc' = [op |-> "search_all", keywords |-> keywords, per_source |-> per_source,
                  arxiv_reply |-> arxiv_reply, hf_reply |-> hf_reply,
                  raised |-> search_all_raises(keywords, per_source, arxiv_reply, hf_reply),
                  items |-> search_all(keywords, per_source, arxiv_reply, hf_reply)]
    /\ UNCHANGED <<cache, cacheSeq, kb, kbSeq, now, task, started, call, calls, lastStore,
                   writes, ks, db>>

\* responder.generate_response(query, knowledge_items, mcp_results) is called
\* and returns or raises
CallGenerate ==
    /\ svc.op = "none"
    /\ \E query \in PipelineQueries, keywords \in KeywordLists,
          arxiv_reply \in GenerateArxivReplies, hf_reply \in HFReplies,
          llm \in LLMServiceReplies :
          \E knowledge_items \in VectorSearch(kb, keywords, <<>>, min_similarity, now) :
             LET mcp_results == search_all(<<QRag>>, max_results_per_source,
                                           arxiv_reply, hf_reply)
                 out == generate_response(query, knowledge_items, mcp_results, llm)
             IN  svc' = [op |-> "generate_response", query |-> query,
                         knowledge_items |-> knowledge_items, mcp_results |-> mcp_results,
                         llm |-> llm,
                         context |-> ContextParts(knowledge_items, mcp_results),
                         llm_calls |-> generation_calls(knowledge_items, mcp_results),
                         raised |-> generate_response_raises(query, knowledge_items,
                                                             mcp_results, llm),
                         response_text |-> out[1], sources |-> out[2]]
    /\ UNCHANGED <<cache, cacheSeq, kb, kbSeq, now, task, started, call, calls, lastStore,
                   writes, ks, db>>

\* responder.generate_response(query) is called with nothing retrieved
CallGenerateNothing ==
    /\ svc.op = "none"
    /\ \E query \in ServiceQueries, llm \in LLMServiceReplies :
          LET out == generate_response(query, <<>>, <<>>, llm)
          IN  svc' = [op |-> "generate_response", query |-> query,
                      knowledge_items |-> <<>>, mcp_results |-> <<>>, llm |-> llm,
                      context |-> ContextParts(<<>>, <<>>),
                      llm_calls |-> generation_calls(<<>>, <<>>),
                      raised |-> generate_response_raises(query, <<>>, <<>>, llm),
                      response_text |-> out[1], sources |-> out[2]]
    /\ UNCHANGED <<cache, cacheSeq, kb, kbSeq, now, task, started, call, calls, lastStore,
                   writes, ks, db>>

\* the queries extract is given: the empty text, words of two characters
\* only, and a text with upper-case words and more than five longer words
ExtractQueries ==
    PipelineQueries \cup
        {<<>>, <<"is", "a">>,
         <<"What", "is", "RAG", "of", "a", "llm", "model", "paper", "search", "cache">>}

\* extractor.extract(query) is called
CallExtract ==
    /\ svc.op = "none"
    /\ \E query \in ExtractQueries : \E reply \in ExtractorReplies(query) :
          svc' = [op |-> "extract", query |-> query, reply |-> reply,
                  raised |-> extract_raises(query, reply),
                  keywords |-> extract_keywords(query, reply)]
    /\ UNCHANGED <<cache, cacheSeq, kb, kbSeq, now, task, started, call, calls, lastStore,
                   writes, ks, db>>

\* the caller has its answer; the next call can be made
ServiceDone ==
    /\ svc.op # "none"
    /\ svc' = NoService
    /\ UNCHANGED <<cache, cacheSeq, kb, kbSeq, now, task, started, call, calls, lastStore,
                   writes, ks, db>>

InitServices ==
    Init /\ kb = {}

NextServices ==
    \/ CallRecency
    \/ CallIngest
    \/ CallIngestBatch
    \/ CallArxiv
    \/ CallHuggingface
    \/ CallSearchAll
    \/ CallGenerate
    \/ CallGenerateNothing
    \/ CallExtract
    \/ ServiceDone

SpecServices == InitServices /\ [][NextServices]_vars

----------------------------------------------------------------------------
(* Properties of the pipeline *)

Returned(p) ==
    task[p].result # <<>>

Envelope(p) ==
    task[p].result[1]

\* the number of calls of op in a trace
Count(trace, op) ==
    Cardinality({i \in 1..Len(trace) : trace[i] = op})

\* C1: an invocation that returns an envelope is tagged by the first tier that
\* yielded a result: cache iff the cache search returned an entry, vector_db iff
\* it missed and the knowledge search returned a non-empty list, mcp iff both
\* yielded nothing and the external search returned a non-empty list, not_found
\* iff all three yielded nothing.
C1_TierTag ==
    \A p \in Procs : Returned(p) =>
        LET t == task[p]
            path == Envelope(p).search_path
        IN  /\ path \in {"cache", "vector_db", "mcp", "not_found"}
            /\ (path = "cache") <=> (t.cached # <<>>)
            /\ (path = "vector_db") <=> (t.cached = <<>> /\ t.vector_results # <<>>)
            /\ (path = "mcp") <=>
                   (t.cached = <<>> /\ t.vector_results = <<>> /\ t.mcp_results # <<>>)
            /\ (path = "not_found") <=>
                   (t.cached = <<>> /\ t.vector_results = <<>> /\ t.mcp_results = <<>>)

\* one invocation has returned from the knowledge base, the other from the
\* external tier
C1_Witness ==
    \E p, q \in Procs :
        /\ Returned(p) /\ Envelope(p).search_path = "vector_db"
        /\ Returned(q) /\ Envelope(q).search_path = "mcp"

\* C2: an invocation that returns with tag vector_db or mcp has made exactly one
\* cache store, given the query, the response and the citations of the envelope
\* it returns; the store inserted a row, and that row holds them.
C2_WriteThrough ==
    \A p \in Procs :
        (Returned(p) /\ Envelope(p).search_path \in {"vector_db", "mcp"}) =>
            /\ Count(task[p].trace, "cache.store") = 1
            /\ Len(task[p].stored) = 1
            /\ task[p].stored[1].query = Envelope(p).query
            /\ task[p].stored[1].response = Envelope(p).response
            /\ task[p].stored[1].sources = Envelope(p).sources
            /\ task[p].stored[1].id \in 1..cacheSeq
            /\ writes[p] >= 1
            /\ \A r \in cache : r.id = task[p].stored[1].id =>
                   /\ r.query_text = Envelope(p).query
                   /\ r.response_text = Envelope(p).response
                   /\ LoadSources(r.sources) = Envelope(p).sources

\* an invocation has returned from the external tier with two citations, and the
\* row it stored is in the cache
C2_Witness ==
    \E p \in Procs :
        /\ Returned(p) /\ Envelope(p).search_path = "mcp"
        /\ Len(Envelope(p).sources) = 2
        /\ \E r \in cache : r.id = task[p].stored[1].id

\* the steps of invocation p
StepOf(p) ==
    task'[p] # task[p] \/ call'[p] # call[p]

\* the table is unchanged but for one more hit on row id, if the row is there
OnlyHitCounted(table, table2, id) ==
    /\ Cardinality(table2) = Cardinality(table)
    /\ \A r \in table :
          IF r.id = id THEN [r EXCEPT !.hit_count = @ + 1] \in table2 ELSE r \in table2

\* C3: on a cache hit the invocation returns the hit entry's response and
\* citations as stored, tagged cache, having called neither the knowledge tier
\* nor the external tier nor the synthesizer nor cache.store; its steps change
\* nothing in the two tables but the hit counter of the hit row, by one.
C3_HitState ==
    \A p \in Procs : task[p].cached # <<>> =>
        LET hit == task[p].cached[1]
        IN  /\ Returned(p)
            /\ Envelope(p).search_path = "cache"
            /\ Envelope(p).response = hit.response_text
            /\ Envelope(p).sources = hit.sources
            /\ task[p].trace = <<"extract", "cache.search">>
            /\ task[p].stored = <<>>
            /\ writes[p] <= 1
            /\ \A r \in cache : r.id = hit.id =>
                   /\ r.response_text = Envelope(p).response
                   /\ r.sources = DumpSources(Envelope(p).sources)

C3_HitStep ==
    \A p \in Procs :
        (call[p].op = "search" /\ call[p].row # <<>> /\ StepOf(p)) =>
            /\ kb' = kb
            /\ cacheSeq' = cacheSeq
            /\ IF call[p].pc = "search_update"
               THEN OnlyHitCounted(cache, cache', call[p].row[1].id)
               ELSE cache' = cache

C3_CacheHit ==
    []C3_HitState /\ [][C3_HitStep]_vars

\* an invocation has returned a hit with a citation, and the hit row is in the
\* cache with that one hit counted
C3_Witness ==
    \E p \in Procs :
        /\ Returned(p) /\ Envelope(p).search_path = "cache"
        /\ Envelope(p).sources # <<>>
        /\ writes[p] = 1
        /\ \E r \in cache : r.id = task[p].cached[1].id /\ r.hit_count = 1

\* C4: when the cache and the knowledge tier yield nothing and the external
\* result is non-empty, every external result is ingested, one new document per
\* result in result order, before the response is synthesized and cached; the
\* invocation returns tagged mcp having added exactly that many documents.
C4_SelfLearning ==
    \A p \in Procs :
        LET t == task[p]
            n == Len(t.mcp_results)
            ids == t.ingest_ids
        IN  /\ (Count(t.trace, "responder.generate_response") > 0 /\ n > 0) =>
                   /\ Len(ids) = n
                   /\ \A i, j \in 1..n : i < j => ids[i] < ids[j]
                   /\ \A i \in 1..n : \E r \in kb :
                          /\ r.id = ids[i]
                          /\ r.content = t.mcp_results[i].content
                          /\ r.source_type = t.mcp_results[i].source_type
                          /\ r.source_url = t.mcp_results[i].source_url
                   /\ Cardinality({r \in kb : \E i \in 1..n : r.id = ids[i]}) = n
                   /\ t.trace \in
                         {<<"extract", "cache.search", "vector_store.search",
                            "mcp_client.search_all">>
                            \o [i \in 1..n |-> "vector_store.ingest"] \o tail :
                          tail \in {<<"responder.generate_response", "cache.store">>}}
            /\ (Returned(p) /\ Envelope(p).search_path = "mcp") =>
                   /\ n > 0
                   /\ Count(t.trace, "responder.generate_response") = 1
                   /\ writes[p] = n + 1

\* an invocation has returned from the external tier having ingested two results
C4_Witness ==
    \E p \in Procs :
        /\ Returned(p) /\ Envelope(p).search_path = "mcp"
        /\ Len(task[p].mcp_results) = 2
        /\ Len(task[p].ingest_ids) = 2

\* C5: an invocation that returns tagged not_found carries the fixed apology
\* text and no citation, and has written nothing: no statement of it changed the
\* cache or the knowledge base.
C5_NotFound ==
    \A p \in Procs :
        (Returned(p) /\ Envelope(p).search_path = "not_found") =>
            /\ Envelope(p).response =
                   "I couldn't find relevant information to answer your question. Try rephrasing your query or asking about a different topic."
            /\ Envelope(p).sources = <<>>
            /\ writes[p] = 0
            /\ task[p].stored = <<>>
            /\ task[p].ingest_ids = <<>>
            /\ Count(task[p].trace, "cache.store") = 0
            /\ Count(task[p].trace, "vector_store.ingest") = 0

\* an invocation with keywords has returned not_found while the cache holds an
\* entry and the knowledge base a document
C5_Witness ==
    \E p \in Procs :
        /\ Returned(p) /\ Envelope(p).search_path = "not_found"
        /\ task[p].keywords # <<>>
        /\ cache # {} /\ kb # {}

TierCalls ==
    <<"extract", "cache.search", "vector_store.search", "mcp_client.search_all">>

IsTierCall(op) ==
    \E i \in 1..Len(TierCalls) : TierCalls[i] = op

\* C6: within one invocation the keyword extraction, the cache search, the
\* knowledge search and the external search are each called at most once and in
\* that order; the knowledge search only after a cache miss, the external search
\* only after the knowledge search returned the empty list.
C6_TierOrder ==
    \A p \in Procs :
        LET t == task[p]
            made == SelectSeq(t.trace, IsTierCall)
        IN  /\ Len(made) <= Len(TierCalls)
            /\ made = SubSeq(TierCalls, 1, Len(made))
            /\ Count(t.trace, "vector_store.search") > 0 => t.cached = <<>>
            /\ Count(t.trace, "mcp_client.search_all") > 0 =>
                   (t.cached = <<>> /\ t.vector_results = <<>>)

\* an invocation has made all four calls
C6_Witness ==
    \E p \in Procs : SelectSeq(task[p].trace, IsTierCall) = TierCalls

----------------------------------------------------------------------------
(* Properties of the cache service *)

\* the SELECT of x's search is the step taken
Selects(x) ==
    call[x].pc = "search_select" /\ call'[x].pc # "search_select"

\* the UPDATE of x's search is the step taken, and the search returns its entry
Updates(x) ==
    call[x].pc = "search_update" /\ call'[x].pc = "returned"

\* the similarity of a stored row to a query text
SimilarityTo(r, query) ==
    Similarity(r.query_embedding, get_embedding(query))

\* C7: the cache search returns an entry only if its similarity to the query is
\* at least the threshold 0.95, and it is then a stored entry of greatest
\* similarity; when no stored entry meets the threshold (an empty store included)
\* it returns none and changes no hit counter.
C7_SelectStep ==
    \A x \in Callers : Selects(x) =>
        IF call'[x].row # <<>>
        THEN LET row == call'[x].row[1]
             IN  \E r \in cache :
                    /\ r.id = row.id
                    /\ row.similarity = SimilarityTo(r, call[x].query)
                    /\ row.similarity >= 9500
                    /\ \A o \in cache : SimilarityTo(o, call[x].query) <= row.similarity
                    /\ row.response_text = r.response_text
                    /\ row.hit_count = r.hit_count
        ELSE /\ \A r \in cache : SimilarityTo(r, call[x].query) < 9500
             /\ call'[x].pc = "returned"
             /\ call'[x].entry = <<>>
             /\ cache' = cache

C7_Returned ==
    \A x \in Callers : call[x].entry # <<>> =>
        /\ call[x].entry[1].similarity >= 9500
        /\ call[x].entry[1].similarity = call[x].row[1].similarity

C7_ThresholdGate ==
    []C7_Returned /\ [][C7_SelectStep]_vars

\* one search has returned a near-duplicate's entry (similarity 0.96) and another
\* has missed on a store that is not empty
C7_Witness ==
    \E x, y \in Callers :
        /\ call[x].entry # <<>> /\ call[x].entry[1].similarity = 9600
        /\ call[y].op = "search" /\ call[y].pc = "returned" /\ call[y].entry = <<>>
        /\ cache # {}

\* C8: the read and the increment of a hit are one atomic step: the entry read
\* still exists when it is incremented, its counter grows by one, and the hit
\* count of the returned entry is the stored counter right after that increment.
C8_AtomicHit ==
    [][\A x \in Callers : Updates(x) =>
          \E r \in cache :
             /\ r.id = call[x].row[1].id
             /\ \E r2 \in cache' :
                    /\ r2.id = r.id
                    /\ r2.hit_count = r.hit_count + 1
                    /\ call'[x].entry[1].hit_count = r2.hit_count]_vars

\* C9: every search that returns an entry increments its stored counter: in
\* every step the counter of a row that stays in the cache grows by the number
\* of searches that return that row in the step, so k returned hits are k
\* increments, and a stored counter never decreases.
C9_NoLostHit ==
    [][\A r \in cache : \A r2 \in cache' : r2.id = r.id =>
          /\ r2.hit_count >= r.hit_count
          /\ r2.hit_count = r.hit_count +
                 Cardinality({x \in Callers : Updates(x) /\ call'[x].entry[1].id = r.id})]_vars

\* two searches read the same row before either incremented it: each returns
\* hit count 1, and the row counts 2
C9_Witness ==
    \E r \in cache :
        /\ r.hit_count = 2
        /\ \A c \in Clients :
              /\ call[c].entry # <<>>
              /\ call[c].entry[1].id = r.id
              /\ call[c].entry[1].hit_count = 1

\* x's search selects right after a store of its query
SelectsAfterStore(x) ==
    Selects(x) /\ lastStore # <<>> /\ lastStore[1].query = call[x].query

\* x's search updates, its select came right after a store of its query, and
\* nothing changed the cache since
UpdatesAfterStore(x) ==
    Updates(x) /\ call[x].after_store # <<>> /\ lastStore = call[x].after_store

\* C10 as claimed: for any cache state, store(q, r, c) followed immediately by
\* search(q) returns an entry with similarity >= threshold and hit count 1.
C10_RoundTripAnyState ==
    [][\A x \in Callers :
          /\ SelectsAfterStore(x) =>
                 (call'[x].row # <<>> /\ call'[x].row[1].similarity >= 9500)
          /\ UpdatesAfterStore(x) =>
                 (call'[x].entry[1].similarity >= 9500 /\ call'[x].entry[1].hit_count = 1)]_vars

\* the rows other than the one just stored that are as close to x's query as
\* the query itself
OlderTwins(x) ==
    {r \in cache : /\ r.id # call[x].after_store[1].id
                   /\ SimilarityTo(r, call[x].query) = SimScale}

\* C10: store(q, r, c) followed immediately by search(q) returns an entry with
\* similarity >= threshold; when the cache held no entry of similarity 1.0 to q
\* before the store, it is the stored entry, with hit count 1.
C10_RoundTrip ==
    [][\A x \in Callers :
          /\ SelectsAfterStore(x) =>
                 (call'[x].row # <<>> /\ call'[x].row[1].similarity >= 9500)
          /\ UpdatesAfterStore(x) =>
                 /\ call'[x].entry[1].similarity >= 9500
                 /\ OlderTwins(x) = {} =>
                        /\ call'[x].entry[1].id = call[x].after_store[1].id
                        /\ call'[x].entry[1].hit_count = 1
                        /\ \E r \in cache' : r.id = call'[x].entry[1].id /\ r.hit_count = 1]_vars

\* a search has returned the entry stored last, for its own query, with hit
\* count 1, from a cache that holds another entry too
C10_Witness ==
    \E x \in Callers :
        /\ call[x].entry # <<>>
        /\ call[x].entry[1].id = cacheSeq
        /\ call[x].entry[1].query_text = call[x].query
        /\ call[x].entry[1].hit_count = 1
        /\ Cardinality(cache) >= 2
        /\ \E r \in cache : r.id = cacheSeq /\ r.hit_count = 1

----------------------------------------------------------------------------
(* Properties of repeated and concurrent invocations *)

\* a row that an earlier answer to p's query stored is still in the cache: no
\* clear has run since p began
PriorKept(p) ==
    \E r \in cache : r.id \in task[p].prior

\* C11: an invocation that begins after an invocation for the same query has
\* returned with tag vector_db or mcp, with no clear since, returns tag cache at
\* similarity 1.0, has incremented the hit counter of the entry it returns, and
\* has called neither the knowledge tier nor the external providers.
C11_RepeatHitsCache ==
    \A p \in Procs : (Returned(p) /\ PriorKept(p)) =>
        /\ Envelope(p).search_path = "cache"
        /\ task[p].cached # <<>>
        /\ task[p].cached[1].similarity = SimScale
        /\ task[p].cached[1].query_text = task[p].query
        /\ Count(task[p].trace, "vector_store.search") = 0
        /\ Count(task[p].trace, "mcp_client.search_all") = 0
        /\ writes[p] = 1
        /\ \E r \in cache : /\ r.id = task[p].cached[1].id
                            /\ r.hit_count >= DefaultHitCount + 1
                            /\ task[p].cached[1].hit_count >= DefaultHitCount + 1

\* an invocation has returned from the cache the answer that an earlier
\* invocation for the same query had fetched from the external tier
C11_Witness ==
    \E p, q \in Procs :
        /\ p # q
        /\ Returned(q) /\ Envelope(q).search_path = "mcp"
        /\ Returned(p) /\ Envelope(p).search_path = "cache"
        /\ task[q].stored[1].id \in task[p].prior
        /\ PriorKept(p)
        /\ Envelope(p).response = Envelope(q).response

\* the envelope p returned is well formed and answers p's request
ValidEnvelope(p) ==
    /\ Envelope(p).search_path \in {"cache", "vector_db", "mcp", "not_found"}
    /\ Envelope(p).query = task[p].query
    /\ Envelope(p).keywords = task[p].keywords
    /\ Envelope(p).response # ""
    /\ (Envelope(p).search_path = "not_found") => (Envelope(p).sources = <<>>)

\* C12: two invocations for the same query that both missed the cache have each
\* stored a row of their own, under different identifiers and with that query
\* text; every invocation that returns, returns a valid envelope; and the
\* duplicates break nothing: identifiers stay unique, counters stay >= 0, and an
\* entry is only ever returned at a similarity of at least the threshold.
C12_DuplicateStores ==
    /\ \A p, q \in Procs :
          (p # q /\ Returned(p) /\ Returned(q) /\ task[p].query = task[q].query
                 /\ task[p].stored # <<>> /\ task[q].stored # <<>>) =>
              /\ task[p].stored[1].id # task[q].stored[1].id
              /\ \A r \in cache : r.id \in {task[p].stored[1].id, task[q].stored[1].id} =>
                     r.query_text = task[p].query
    /\ \A p \in Procs : Returned(p) => ValidEnvelope(p)
    /\ \A r \in cache : r.hit_count >= 0 /\ r.id \in 1..cacheSeq
    /\ \A r1, r2 \in cache : r1.id = r2.id => r1 = r2
    /\ \A p \in Procs : task[p].cached # <<>> =>
          task[p].cached[1].similarity >= cache_similarity_threshold
    /\ \A x \in Callers : call[x].row # <<>> =>
          call[x].row[1].similarity >= cache_similarity_threshold

\* two invocations for the same query ran together, neither began after the
\* other's answer, both returned from a lower tier, and the cache holds the two
\* rows they stored, with the same query text
C12_Witness ==
    \E p, q \in Procs :
        /\ p # q
        /\ Returned(p) /\ Returned(q)
        /\ task[p].query = task[q].query
        /\ task[p].stored # <<>> /\ task[q].stored # <<>>
        /\ task[p].prior = {} /\ task[q].prior = {}
        /\ \E r1, r2 \in cache :
              /\ r1.id = task[p].stored[1].id
              /\ r2.id = task[q].stored[1].id
              /\ r1.id # r2.id
              /\ r1.query_text = r2.query_text

----------------------------------------------------------------------------
(* Properties of store and clear *)

\* the INSERT of x's store is the step taken, and the store returns
Stores(x) ==
    call[x].pc = "store_insert" /\ call'[x].pc = "returned"

\* C13: every store that completes adds exactly one row, under an identifier
\* never used before, with the query, response and citations it was given and
\* hit count 0, whatever rows for identical or near-identical queries the cache
\* holds, and leaves every existing row as it was.
C13_StoreAddsOne ==
    [][\A x \in Callers : Stores(x) =>
          \E new \in cache' :
             /\ new \notin cache
             /\ cache' = cache \cup {new}
             /\ Cardinality(cache') = Cardinality(cache) + 1
             /\ new.id \notin 1..cacheSeq
             /\ \A r \in cache : r.id # new.id
             /\ call'[x].cache_id = new.id
             /\ new.hit_count = 0
             /\ new.query_text = call[x].query
             /\ new.response_text = call[x].response
             /\ LoadSources(new.sources) = call[x].sources]_vars

\* a store has just completed, and its row stands beside an older row for the
\* same query and an older row for a near-identical one
C13_Witness ==
    /\ lastStore # <<>>
    /\ \E new, twin, near \in cache :
          /\ new.id = lastStore[1].id
          /\ twin.id # new.id /\ twin.query_text = new.query_text
          /\ near.query_text # new.query_text
          /\ Similarity(near.query_embedding, new.query_embedding)
                 >= cache_similarity_threshold
          /\ new.hit_count = 0

\* a call to the cache service is made in the step taken
CallMade ==
    calls' = calls + 1

\* clear() by x has deleted every row, returned their number, and left the
\* knowledge base alone
Cleared(x) ==
    /\ call'[x].op = "clear"
    /\ call'[x].pc = "returned"
    /\ cache' = {}
    /\ call'[x].count = Cardinality(cache)
    /\ (cache = {}) => (call'[x].count = 0)
    /\ kb' = kb
    /\ kbSeq' = kbSeq

\* C14: clear() removes every cache entry and returns the number of entries
\* there were immediately before it, so it returns 0 on an empty cache and
\* when it directly follows another clear; it never changes the knowledge base.
\* (The step of a clear leaves the caller with the frame of a returned clear;
\* when that frame is the one the caller already had, the step is the clear of
\* some caller with such a frame.)
C14_Clear ==
    [][/\ \A x \in Callers :
             (CallMade /\ call'[x] # call[x] /\ call'[x].op = "clear") => Cleared(x)
       /\ (CallMade /\ call' = call) => \E x \in Callers : Cleared(x)]_vars

\* one clear has returned 2 and another, on an empty cache, has returned 0,
\* with a document in the knowledge base
C14_Witness ==
    \E x, y \in Callers :
        /\ x # y
        /\ call[x].op = "clear" /\ call[x].count = 2
        /\ call[y].op = "clear" /\ call[y].count = 0
        /\ calls = 4
        /\ cache = {}
        /\ kb # {}

----------------------------------------------------------------------------
(* Properties of the knowledge base *)

\* C15: no step of a pipeline invocation (knowledge search, ingest, cache
\* search, cache store) and no cache clear changes or removes a document of the
\* knowledge base: every document stays, with the same fields, and count()
\* never decreases.
C15_DocumentsKept ==
    [][/\ \A d \in kb : d \in kb'
       /\ \A d \in kb : \A e \in kb' : e.id = d.id => e = d
       /\ get_count(kb') >= get_count(kb)
       /\ kbSeq' >= kbSeq]_vars

\* the same external document has been ingested twice, beside the document
\* entered by hand, and the cache has been cleared after a store
C15_Witness ==
    /\ \E d, e \in kb : d.id # e.id /\ d.content = e.content
    /\ \E m \in kb : m.source_type = "manual" /\ m.created_at = 0
    /\ get_count(kb) >= 3
    /\ cacheSeq >= 1 /\ cache = {}

----------------------------------------------------------------------------
(* Properties of the knowledge search and of the external searches *)

\* C16: the knowledge search, search_arxiv and search_huggingface, given no
\* keywords, return the empty list at once: no text is embedded, no index
\* query is issued and no request is sent.
C16_EmptyKeywords ==
    (ks.op \in {"vector_store.search", "search_arxiv", "search_huggingface"}
        /\ ks.keywords = <<>>) =>
            /\ ks.items = <<>>
            /\ ks.embedded = <<>>
            /\ ks.queries = <<>>
            /\ ks.fetched = <<>>
            /\ ks.requests = <<>>

\* the knowledge search has been given no keywords on a knowledge base that
\* holds documents
C16_Witness ==
    /\ ks.op = "vector_store.search"
    /\ ks.keywords = <<>>
    /\ get_count(kb) >= 2
    /\ ks.items = <<>>

\* the raw similarity of document d to the text the search embedded
RawSimilarity(d) ==
    Similarity(d.content_embedding, get_embedding(ks.embedded[1]))

\* the identifiers of the documents returned
ReturnedIds ==
    {ks.items[i].id : i \in 1..Len(ks.items)}

\* C17: a knowledge search returns no document whose raw similarity to the
\* search text is below minSimilarity, however recent the document; when every
\* stored document is below it the result is the empty list.
C17_ThresholdFilter ==
    (ks.op = "vector_store.search" /\ ks.keywords # <<>>) =>
        /\ \A i \in 1..Len(ks.items) :
              /\ ks.items[i].similarity >= ks.min_sim
              /\ \E d \in kb : d.id = ks.items[i].id
                                 /\ RawSimilarity(d) = ks.items[i].similarity
        /\ \A d \in kb : RawSimilarity(d) < ks.min_sim => d.id \notin ReturnedIds
        /\ (\A d \in kb : RawSimilarity(d) < ks.min_sim) => ks.items = <<>>

\* a search has fetched a document stored today whose similarity is below the
\* threshold, dropped it, and returned an older document
C17_Witness ==
    /\ ks.op = "vector_store.search"
    /\ ks.items # <<>>
    /\ \E d \in kb :
          /\ d.created_at = now
          /\ RawSimilarity(d) < ks.min_sim
          /\ \E i \in 1..Len(ks.fetched) : ks.fetched[i].id = d.id
          /\ d.id \notin ReturnedIds
    /\ \E i \in 1..Len(ks.items) : ks.items[i].created_at < now

\* C18: the documents a knowledge search returns are in descending order of
\* final score 0.7 * similarity + 0.3 * recency: of two returned documents the
\* one with the strictly greater final score comes first, also when the other
\* has the greater raw similarity.
C18_OrderedByFinalScore ==
    (ks.op = "vector_store.search") =>
        \A i, j \in 1..Len(ks.items) :
            LET x == ks.items[i]
                y == ks.items[j]
            IN  /\ (i < j) => (x.final_score >= y.final_score)
                /\ (7 * y.similarity + 3 * y.recency_score
                        > 7 * x.similarity + 3 * x.recency_score) => (j < i)

\* the first document returned is less similar than the second and more recent
C18_Witness ==
    /\ ks.op = "vector_store.search"
    /\ Len(ks.items) >= 2
    /\ ks.items[1].similarity < ks.items[2].similarity
    /\ ks.items[1].recency_score > ks.items[2].recency_score
    /\ ks.items[1].final_score > ks.items[2].final_score

\* C19: a knowledge search given the limit L returns at most L documents,
\* however many rows the index returns and however many pass the filter.
C19_AtMostLimit ==
    (ks.op = "vector_store.search" /\ ks.limit # <<>>) =>
        Len(ks.items) <= ks.limit[1]

\* C20: a knowledge search given keywords and the limit L issues exactly one
\* index query, and that query asks for exactly 2L rows.
C20_OverFetch ==
    (ks.op = "vector_store.search" /\ ks.keywords # <<>> /\ ks.limit # <<>>) =>
        /\ ks.queries = <<2 * ks.limit[1]>>
        /\ Len(ks.fetched) <= 2 * ks.limit[1]

----------------------------------------------------------------------------
(* Properties of the scoring and of ingestion *)

\* the age in whole days of the timestamp scored, its clock read in UTC when
\* it has no tzinfo
AgeScored ==
    LET offset == IF svc.created_at.tz = <<>> THEN 0 ELSE svc.created_at.tz[1]
    IN  (now * 24 - (svc.created_at.wall - offset)) \div 24

\* C21: the recency score depends on the age in whole days only: 1.0 below 7
\* days, 0.7 from 7 to below 30 days, 0.5 from 30 days on, so that the ages 7
\* and 30 score 0.7 and 0.5; a timestamp without timezone is scored as if it
\* were in UTC, and no error is raised.
C21_RecencyTiers ==
    (svc.op = "calculate_recency_score") =>
        /\ svc.out.raised = <<>>
        /\ AgeScored < 7 => svc.out.score = 10000
        /\ (7 <= AgeScored /\ AgeScored < 30) => svc.out.score = 7000
        /\ AgeScored >= 30 => svc.out.score = 5000

\* a timestamp without timezone exactly 30 days old is scored 0.5
C21_Witness ==
    /\ svc.op = "calculate_recency_score"
    /\ svc.created_at.tz = <<>>
    /\ AgeScored = 30
    /\ svc.created_at.wall = (now - 30) * 24
    /\ svc.out = [raised |-> <<>>, score |-> 5000]

\* sub-scores over [0, 1], in units of 1/10000
UnitScores ==
    {0, 2500, 5000, 7000, 9500, 10000}

\* C22: every returned knowledge document has final score 0.7 * similarity +
\* 0.3 * recency, and for sub-scores in [0, 1] the final score lies in [0, 1]
\* (scores in units of 1/10000, final scores in units of 1/100000).
C22_ConvexScore ==
    /\ (ks.op = "vector_store.search") =>
          \A i \in 1..Len(ks.items) :
             /\ ks.items[i].final_score =
                    7 * ks.items[i].similarity + 3 * ks.items[i].recency_score
             /\ ks.items[i].similarity \in 0..SimScale
             /\ ks.items[i].recency_score \in 0..SimScale
             /\ ks.items[i].final_score \in 0..(10 * SimScale)
    /\ \A s \in UnitScores, r \in UnitScores :
          /\ FinalScore(s, r) = 7 * s + 3 * r
          /\ FinalScore(s, r) \in 0..(10 * SimScale)

\* a search returns a document seven to thirty days old of similarity 0.96, scored
\* 0.7 * 0.96 + 0.3 * 0.7 = 0.882
C22_Witness ==
    /\ ks.op = "vector_store.search"
    /\ \E i \in 1..Len(ks.items) :
          /\ ks.items[i].similarity = 9600
          /\ ks.items[i].recency_score = 7000
          /\ ks.items[i].final_score = 88200

\* C23: every ingest(document) call that completes adds exactly one document
\* and returns its identifier, also when a document with the same content is
\* already stored; the documents stored before are unchanged.
C23_IngestAddsOne ==
    (svc.op = "ingest" /\ svc.raised = <<>>) =>
        /\ get_count(kb) = get_count(svc.before) + 1
        /\ svc.before \subseteq kb
        /\ Len(svc.id) = 1
        /\ \A d \in svc.before : d.id # svc.id[1]
        /\ \E d \in kb \ svc.before :
              /\ d.id = svc.id[1]
              /\ d.content = svc.item.content
              /\ d.source_url = svc.item.source_url

\* an ingest has completed for a document whose content was already stored
C23_Witness ==
    /\ svc.op = "ingest"
    /\ svc.raised = <<>>
    /\ \E d \in svc.before : d.content = svc.item.content
    /\ \E d \in kb \ svc.before : d.id = svc.id[1] /\ d.content = svc.item.content

\* the documents stored by the call are the first n items of the batch, one
\* document each, with identifiers ascending in the order of the items
StoredInOrder(n, ids) ==
    /\ Len(ids) = n
    /\ svc.before \subseteq kb
    /\ get_count(kb) = get_count(svc.before) + n
    /\ \A i \in 1..n :
          /\ \A d \in svc.before : d.id # ids[i]
          /\ \A j \in 1..n : i < j => ids[i] < ids[j]
          /\ \E d \in kb \ svc.before :
                /\ d.id = ids[i]
                /\ d.content = svc.items[i].content
                /\ d.source_url = svc.items[i].source_url

\* C24: ingest_batch ingests one document per element in input order and
\* returns the identifiers in that order; when the ingestion of element i
\* fails, the documents of the elements before i stay stored, the elements
\* after i are not ingested, and the failure is raised to the caller.
C24_BatchInOrder ==
    (svc.op = "ingest_batch") =>
        IF svc.fail_at = 0
        THEN /\ svc.raised = <<>>
             /\ StoredInOrder(Len(svc.items), svc.ids)
        ELSE /\ svc.raised # <<>>
             /\ svc.ids = <<>>
             /\ \E ids \in [1..(svc.fail_at - 1) -> {d.id : d \in kb \ svc.before}] :
                   StoredInOrder(svc.fail_at - 1, ids)

\* the second ingestion of a batch of two has failed: the first document is
\* stored, the second is not, and the exception is raised
C24_Witness ==
    /\ svc.op = "ingest_batch"
    /\ Len(svc.items) = 2
    /\ svc.fail_at = 2
    /\ svc.raised # <<>>
    /\ get_count(kb) = get_count(svc.before) + 1
    /\ \E d \in kb \ svc.before : d.content = svc.items[1].content

----------------------------------------------------------------------------
(* Properties of the external search tier and of the synthesizer *)

\* C25: search_arxiv never raises to its caller; with keywords, a transport
\* exception, a timeout, a non-success HTTP status or an unparseable body
\* yields the empty list.
C25_ArxivSwallows ==
    (svc.op = "search_arxiv") =>
        /\ svc.raised = <<>>
        /\ (svc.keywords # <<>> /\ svc.reply.status # "ok") => svc.items = <<>>

\* a search with keywords whose response body did not parse returned the
\* empty list
C25_Witness ==
    /\ svc.op = "search_arxiv"
    /\ svc.keywords # <<>>
    /\ svc.reply.status = "ParseError"
    /\ svc.raised = <<>>
    /\ svc.items = <<>>

\* C26: search_huggingface never raises to its caller, and on any transport or
\* decoding error it returns the empty list, also when the error occurs after
\* some entries of the response have been mapped into documents.
C26_HuggingfaceSwallows ==
    (svc.op = "search_huggingface") =>
        /\ svc.raised = <<>>
        /\ (svc.keywords # <<>> /\ HFTryRaises(svc.max_results, svc.reply) # <<>>) =>
              svc.items = <<>>

\* the provider's request or the decoding of its response ended in an error
ArxivFailed ==
    svc.keywords # <<>> /\ svc.arxiv_reply.status # "ok"

HFFailed ==
    svc.keywords # <<>> /\ HFTryRaises(svc.per_source, svc.hf_reply) # <<>>

\* what each provider returns for the arguments and the reply of the call
ArxivPart ==
    search_arxiv(svc.keywords, svc.per_source, svc.arxiv_reply)

HFPart ==
    search_huggingface(svc.keywords, svc.per_source, svc.hf_reply)

\* C27: search_all returns provider A's results followed by provider B's, its
\* length the sum of both; when one provider fails the result is exactly the
\* healthy provider's results, and no error reaches the caller.
C27_SearchAllConcatenates ==
    (svc.op = "search_all") =>
        /\ svc.raised = <<>>
        /\ Len(svc.items) = Len(ArxivPart) + Len(HFPart)
        /\ SubSeq(svc.items, 1, Len(ArxivPart)) = ArxivPart
        /\ SubSeq(svc.items, Len(ArxivPart) + 1, Len(svc.items)) = HFPart
        /\ (ArxivFailed /\ ~HFFailed) => svc.items = HFPart
        /\ (HFFailed /\ ~ArxivFailed) => svc.items = ArxivPart

\* C28: search_all(keywords, perSourceMax) returns at most perSourceMax
\* documents of each provider, and so at most twice perSourceMax in all,
\* whatever number of entries a provider's response contains.
C28_PerProviderCap ==
    (svc.op = "search_all") =>
        /\ Len(ArxivPart) <= svc.per_source
        /\ Len(HFPart) <= svc.per_source
        /\ Len(svc.items) <= 2 * svc.per_source

\* the items generate_response was given, the knowledge items first
ItemsGiven ==
    [i \in 1..(Len(svc.knowledge_items) + Len(svc.mcp_results)) |->
        IF i <= Len(svc.knowledge_items) THEN svc.knowledge_items[i]
        ELSE svc.mcp_results[i - Len(svc.knowledge_items)]]

\* C30: generate_response does not raise when the text generation fails: it
\* returns an apologetic message that embeds the error text, together with
\* the full citation list, one citation per item it was given.
C30_GenerationFailure ==
    (svc.op = "generate_response" /\ ItemsGiven # <<>> /\ LLMTryRaises(svc.llm) # <<>>) =>
        /\ svc.raised = <<>>
        /\ svc.response_text =
               "I encountered an error generating a response: "
                   \o ErrorText(LLMTryRaises(svc.llm)[1])
        /\ Len(svc.sources) = Len(ItemsGiven)
        /\ \A i \in 1..Len(ItemsGiven) :
              /\ svc.sources[i].source_type = ItemsGiven[i].source_type
              /\ svc.sources[i].title = ItemsGiven[i].source_title
              /\ svc.sources[i].url = ItemsGiven[i].source_url

\* the generation timed out for a knowledge item and an external result: the
\* message carries the error text, and both are cited
C30_Witness ==
    /\ svc.op = "generate_response"
    /\ svc.llm.raised = <<"APITimeoutError">>
    /\ Len(svc.knowledge_items) >= 1
    /\ Len(svc.mcp_results) >= 1
    /\ svc.raised = <<>>
    /\ svc.response_text = "I encountered an error generating a response: Request timed out."
    /\ Len(svc.sources) = Len(svc.knowledge_items) + Len(svc.mcp_results)

----------------------------------------------------------------------------
(* Properties of the pipeline under failures *)

\* the invocation of p has ended in the exception of one of its calls
Failed(p) ==
    task[p].error # <<>>

\* the calls of an invocation that embed or use the store
FallibleCalls ==
    {"cache.search", "vector_store.search", "vector_store.ingest", "cache.store"}

\* an invocation that failed has ended without a response, and the call that
\* failed is the last it made, made once (once per item for the ingests)
EndsInFailure(p) ==
    /\ task[p].pc = "failed"
    /\ task[p].result = <<>>
    /\ call[p] = NoCall
    /\ task[p].error[1].call \in FallibleCalls
    /\ task[p].trace # <<>>
    /\ task[p].trace[Len(task[p].trace)] = task[p].error[1].call
    /\ Count(task[p].trace, task[p].error[1].call) =
           IF task[p].error[1].call = "vector_store.ingest"
           THEN Len(task[p].ingest_ids) + 1 ELSE 1

\* C29: when an embedding or storage call fails inside the cache search, the
\* knowledge search, the ingestion or the cache store of an invocation, the
\* invocation ends with that failure raised to the orchestrator's caller: no
\* envelope is returned, no later tier is attempted, and the failed call is
\* not retried.
C29_FailurePropagates ==
    /\ [](\A p \in Procs : Failed(p) => EndsInFailure(p))
    /\ [][\A p \in Procs :
            /\ (Failed(p)' /\ ~Failed(p)) => UNCHANGED <<cache, cacheSeq, kb, kbSeq>>
            /\ (Failed(p) /\ task'[p] # task[p]) =>
                  /\ task'[p].pc = "extract"
                  /\ task'[p].trace = <<>>
                  /\ started' = started + 1
            /\ (Failed(p) /\ task'[p] = task[p]) => writes'[p] = writes[p]]_vars

\* the INSERT of cache.store has failed after the response was generated from
\* external results that were ingested: the invocation ended without a
\* response
C29_Witness ==
    \E p \in Procs :
        /\ task[p].pc = "failed"
        /\ task[p].error = <<[call |-> "cache.store", raised |-> "PostgresError"]>>
        /\ task[p].ingest_ids # <<>>
        /\ task[p].response_text # ""
        /\ task[p].result = <<>>

----------------------------------------------------------------------------
(* Properties of the synthesizer's context and of the keyword extractor *)

\* a character of the query given lies in the Hangul syllable block
\* U+AC00..U+D7A3
HasHangulSyllable ==
    \E i \in 1..Len(svc.query) : \E k \in 1..Len(CodePoints(svc.query[i])) :
        CodePoints(svc.query[i])[k] \in 44032..55203

\* C31: given no knowledge documents and no external results,
\* generate_response makes no text-generation call and returns an empty
\* citation list with the fixed not-found message: the Korean text iff the
\* query has a character in the Hangul syllable range, else the default text.
C31_NotFoundLocalized ==
    (svc.op = "generate_response" /\ svc.knowledge_items = <<>> /\ svc.mcp_results = <<>>) =>
        /\ svc.llm_calls = 0
        /\ svc.raised = <<>>
        /\ svc.sources = <<>>
        /\ svc.response_text =
              IF HasHangulSyllable
              THEN "(ko) no relevant information found; rephrase the question or ask about another AI and machine learning research topic"
              ELSE "I couldn't find relevant information to answer your question. Try rephrasing your query or asking about a different topic related to AI and machine learning research."

\* a query of Latin words and one word holding Hangul syllables, with nothing
\* retrieved, is answered in Korean without a generation call
C31_Witness ==
    /\ svc.op = "generate_response"
    /\ svc.query = <<"what", "is", "rag_geomsaek">>
    /\ svc.knowledge_items = <<>>
    /\ svc.mcp_results = <<>>
    /\ svc.llm_calls = 0
    /\ svc.sources = <<>>
    /\ svc.response_text = "(ko) no relevant information found; rephrase the question or ask about another AI and machine learning research topic"

\* C32: generate_response builds one context item and one citation per input
\* item, the knowledge documents first and the external results after them,
\* each in input order; the context numbers run 1..n+m, and each content is
\* cut to its first 1000 characters.
C32_ContextNumbered ==
    (svc.op = "generate_response") =>
        /\ Len(svc.context) = Len(ItemsGiven)
        /\ ItemsGiven # <<>> => Len(svc.sources) = Len(ItemsGiven)
        /\ \A i \in 1..Len(ItemsGiven) :
              /\ svc.context[i].number = i
              /\ svc.context[i].source_type = ItemsGiven[i].source_type
              /\ Len(svc.context[i].content) <= 1000
              /\ svc.context[i].content =
                     IF Len(ItemsGiven[i].content) <= 1000 THEN ItemsGiven[i].content
                     ELSE SubSeq(ItemsGiven[i].content, 1, 1000)
              /\ svc.sources[i].url = ItemsGiven[i].source_url
              /\ svc.sources[i].title = ItemsGiven[i].source_title

\* a knowledge document and an external result whose content is longer than
\* 1000: the result is numbered 2 and its content is cut to 1000
C32_Witness ==
    /\ svc.op = "generate_response"
    /\ Len(svc.knowledge_items) = 1
    /\ Len(svc.mcp_results) >= 1
    /\ Len(svc.mcp_results[1].content) > 1000
    /\ svc.context[2].number = 2
    /\ Len(svc.context[2].content) = 1000
    /\ Len(svc.sources) = Len(svc.knowledge_items) + Len(svc.mcp_results)

\* the answer of the generation call is a failure or a malformed structured
\* output: the call raised, there is no content, the content is no JSON, the
\* JSON value is no object, or the object has no list of keywords
ExtractFailedOrMalformed ==
    \/ svc.reply.raised # <<>>
    \/ svc.reply.content = <<>>
    \/ svc.reply.content[1].json # "object"
    \/ ~svc.reply.content[1].has_keywords
    \/ svc.reply.content[1].keywords_type # "list"

\* the lower-cased words of the query longer than 2 characters, in query
\* order, the first 5
NaiveFallback ==
    LET long == SelectSeq(svc.query, LAMBDA w : WordLen(w) > 2)
        n == IF Len(long) < 5 THEN Len(long) ELSE 5
    IN  [i \in 1..n |-> <<Lower(long[i])>>]

\* C34: keyword extraction never raises, and on any failure of the generation
\* call or any malformed structured output it returns the naive fallback: the
\* lower-cased whitespace tokens of the query longer than 2 characters, in
\* query order, at most the first 5.
C34_ExtractFallsBack ==
    (svc.op = "extract") =>
        /\ svc.raised = <<>>
        /\ ExtractFailedOrMalformed => svc.keywords = NaiveFallback

\* C35: cache stats report total entries = the number of stored entries,
\* total hits = the sum of all stored hit counters, and average hits per
\* entry = total hits / total entries; on the empty cache total hits and the
\* average are 0 and nothing is raised.
C35_StatsAggregate ==
    (svc.op = "get_stats") =>
        LET stats == svc.stats
            HitsOf(i) == IF \E r \in svc.table : r.id = i
                         THEN (CHOOSE r \in svc.table : r.id = i).hit_count ELSE 0
            upto[n \in 0..cacheSeq] == IF n = 0 THEN 0 ELSE upto[n - 1] + HitsOf(n)
        IN  /\ stats.raised = <<>>
            /\ stats.total_entries = Cardinality(svc.table)
            /\ stats.total_hits = upto[cacheSeq]
            /\ stats.avg_hits_per_entry.den > 0
            /\ IF svc.table = {}
               THEN stats.total_hits = 0 /\ stats.avg_hits_per_entry.num = 0
               ELSE stats.avg_hits_per_entry.num * stats.total_entries =
                        stats.total_hits * stats.avg_hits_per_entry.den

\* the statistics of a cache of two entries, one served once and one never:
\* one hit in all, half a hit per entry
C35_Witness ==
    /\ svc.op = "get_stats"
    /\ Cardinality(svc.table) = 2
    /\ {r.hit_count : r \in svc.table} = {0, 1}
    /\ svc.stats.total_entries = 2
    /\ svc.stats.total_hits = 1
    /\ svc.stats.avg_hits_per_entry.num * 2 = svc.stats.avg_hits_per_entry.den

\* the searches of the trace that are given keywords
KeywordSearches(trace) ==
    SelectSeq(trace, LAMBDA op : op \in {"vector_store.search", "mcp_client.search_all"})

\* C33: keywords are extracted exactly once per invocation; on every return
\* path (cache, vector_db, mcp, not_found) the envelope's keyword list is the
\* extractor's output and the envelope's query is the input query; the same
\* keyword list is the one passed to the knowledge search and to the
\* external search.
C33_KeywordsOnce ==
    \A p \in Procs :
        /\ task[p].pc \notin {"idle", "extract"} => Count(task[p].trace, "extract") = 1
        /\ task[p].pc \in {"idle", "extract"} => Count(task[p].trace, "extract") = 0
        /\ task[p].pc # "idle" => task[p].keywords \in extract(task[p].query) \cup {<<>>}
        /\ Len(task[p].passed) = Len(KeywordSearches(task[p].trace))
        /\ \A i \in 1..Len(task[p].passed) :
              /\ task[p].passed[i].to = KeywordSearches(task[p].trace)[i]
              /\ task[p].passed[i].keywords = task[p].keywords
        /\ task[p].result # <<>> =>
              /\ task[p].result[1].search_path \in {"cache", "vector_db", "mcp", "not_found"}
              /\ task[p].result[1].keywords = task[p].keywords
              /\ task[p].result[1].query = task[p].query

\* an invocation answered from the external tier: the keyword list the
\* extractor returned (the query as one phrase) went to both searches and is
\* in the envelope
C33_Witness ==
    \E p \in Procs :
        /\ task[p].result # <<>>
        /\ task[p].result[1].search_path = "mcp"
        /\ task[p].keywords = <<task[p].query>>
        /\ Len(task[p].passed) = 2
        /\ task[p].passed[1].to = "vector_store.search"
        /\ task[p].passed[1].keywords = <<task[p].query>>
        /\ task[p].passed[2].to = "mcp_client.search_all"
        /\ task[p].passed[2].keywords = task[p].result[1].keywords
        /\ Count(task[p].trace, "extract") = 1

\* the text generation call of p's invocation raised
GenerationFailed(p) ==
    /\ task[p].generation # <<>>
    /\ task[p].generation[1].raised # <<>>

\* the documents p's invocation retrieved
Retrieved(p) ==
    task[p].vector_results \o task[p].mcp_results

\* sources cites the documents of items, in order
Cites(sources, items) ==
    /\ Len(sources) = Len(items)
    /\ \A i \in 1..Len(items) :
          /\ sources[i].url = items[i].source_url
          /\ sources[i].title = items[i].source_title
          /\ sources[i].source_type = items[i].source_type

\* C36: if text generation fails during a tier-2 or tier-3 resolution, the
\* invocation still returns normally with that tier's tag, the apologetic
\* error message as its response and the citations of the retrieved documents;
\* the error message is written to the cache like any other response, and a
\* later identical query served that entry returns the error message with tag
\* cache, as long as the cache has not been cleared.
C36_FailureCached ==
    \A q \in Procs : GenerationFailed(q) =>
        /\ task[q].pc \in {"cache_store", "done"}
        /\ task[q].error = <<>>
        /\ Retrieved(q) # <<>>
        /\ task[q].response_text =
               "I encountered an error generating a response: Request timed out."
        /\ Cites(task[q].sources, Retrieved(q))
        /\ task[q].pc = "cache_store" =>
               /\ call[q].op = "store"
               /\ call[q].query = task[q].query
               /\ call[q].response = task[q].response_text
               /\ call[q].sources = task[q].sources
        /\ task[q].pc = "done" =>
               /\ Returned(q)
               /\ Envelope(q).search_path =
                      (IF task[q].vector_results # <<>> THEN "vector_db" ELSE "mcp")
               /\ Envelope(q).response = task[q].response_text
               /\ Envelope(q).sources = task[q].sources
               /\ task[q].stored # <<>>
               /\ task[q].stored[1].response = task[q].response_text
               /\ task[q].stored[1].sources = task[q].sources
               /\ \A p \in Procs \ {q} :
                     (/\ Returned(p)
                      /\ task[p].cached # <<>>
                      /\ task[p].cached[1].id = task[q].stored[1].id) =>
                         /\ Envelope(p).search_path = "cache"
                         /\ Envelope(p).query = task[q].query
                         /\ Envelope(p).response = task[q].response_text
                         /\ Len(Envelope(p).sources) = Len(task[q].sources)
               /\ \A p \in Procs \ {q} :
                     (/\ Returned(p)
                      /\ task[p].prior = {task[q].stored[1].id}
                      /\ PriorKept(p)) =>
                         /\ Envelope(p).search_path = "cache"
                         /\ task[p].cached[1].id = task[q].stored[1].id
                         /\ Envelope(p).response = task[q].response_text

\* the generation failed in the external tier, the invocation returned the
\* error message with tag mcp and stored it, and a later invocation for the
\* same query returned that message with tag cache
C36_Witness ==
    \E p, q \in Procs :
        /\ p # q
        /\ GenerationFailed(q)
        /\ Returned(q)
        /\ Envelope(q).search_path = "mcp"
        /\ Envelope(q).sources # <<>>
        /\ Returned(p)
        /\ task[p].prior = {task[q].stored[1].id}
        /\ Envelope(p).search_path = "cache"
        /\ Envelope(p).response =
               "I encountered an error generating a response: Request timed out."

\* 1.0 in the units of a final score
UnitRelevance == SimScale * 10

\* every citation of sources has a relevance score in [0,1]
ScoresInUnitInterval(sources) ==
    \A i \in 1..Len(sources) : sources[i].relevance_score \in 0..UnitRelevance

\* the citations p's invocation built: one per retrieved document, a knowledge
\* document cited with its final score, an external result with 0.0
ScoredAsRetrieved(p) ==
    /\ Len(task[p].sources) = Len(Retrieved(p))
    /\ \A i \in 1..Len(task[p].vector_results) :
          /\ task[p].sources[i].relevance_score = task[p].vector_results[i].final_score
          /\ task[p].vector_results[i].final_score * 10 =
                 task[p].vector_results[i].similarity * 70
                     + task[p].vector_results[i].recency_score * 30
    /\ \A i \in (Len(task[p].vector_results) + 1)..Len(Retrieved(p)) :
          task[p].sources[i].relevance_score = 0

\* C39: every citation in every returned envelope and in every stored cache
\* entry has a relevance score in [0,1]; citations built from knowledge
\* documents carry the document's final score and citations built from
\* external results carry 0.0.
C39_RelevanceInUnitInterval ==
    /\ \A p \in Procs :
          /\ task[p].generation # <<>> => ScoredAsRetrieved(p)
          /\ ScoresInUnitInterval(task[p].sources)
          /\ Returned(p) => ScoresInUnitInterval(Envelope(p).sources)
          /\ task[p].cached # <<>> => ScoresInUnitInterval(task[p].cached[1].sources)
    /\ \A r \in cache : ScoresInUnitInterval(LoadSources(r.sources))

\* an envelope of the knowledge tier citing a document with its final score,
\* strictly between 0 and 1, and a cache entry holding that citation
C39_Witness ==
    \E p \in Procs :
        /\ Returned(p)
        /\ Envelope(p).search_path = "vector_db"
        /\ Envelope(p).sources[1].relevance_score = task[p].vector_results[1].final_score
        /\ Envelope(p).sources[1].relevance_score \in 1..(UnitRelevance - 1)
        /\ \E r \in cache : /\ r.id = task[p].stored[1].id
                            /\ LoadSources(r.sources) = Envelope(p).sources

\* p's invocation failed in the external tier after ingestion had begun
FailedAfterIngest(p) ==
    /\ Failed(p)
    /\ task[p].mcp_results # <<>>
    /\ task[p].ingest_ids # <<>>

\* the documents p's invocation ingested are stored, as ingested
IngestedKept(p) ==
    \A i \in 1..Len(task[p].ingest_ids) :
        \E r \in kb : /\ r.id = task[p].ingest_ids[i]
                      /\ r.content = task[p].mcp_results[i].content
                      /\ r.source_url = task[p].mcp_results[i].source_url

\* C38: if a tier-3 resolution fails after ingestion has begun (a later ingest
\* of the batch raises, or the cache store raises), nothing is rolled back: the
\* documents already ingested remain in the knowledge base, no cache entry is
\* written for the query, and the caller receives the failure.
C38_NoRollback ==
    /\ [](\A p \in Sequential : FailedAfterIngest(p) =>
            /\ task[p].error[1].call \in {"vector_store.ingest", "cache.store"}
            /\ Len(task[p].ingest_ids) <= Len(task[p].mcp_results)
            /\ (task[p].error[1].call = "vector_store.ingest") =>
                   Len(task[p].ingest_ids) < Len(task[p].mcp_results)
            /\ (task[p].error[1].call = "cache.store") =>
                   Len(task[p].ingest_ids) = Len(task[p].mcp_results)
            /\ IngestedKept(p)
            /\ task[p].stored = <<>>
            /\ ~\E r \in cache : r.query_text = task[p].query
            /\ task[p].pc = "failed"
            /\ task[p].result = <<>>)
    /\ [][\A p \in Sequential :
            (FailedAfterIngest(p)' /\ ~Failed(p)) =>
                /\ kb' = kb
                /\ cache' = cache
                /\ cacheSeq' = cacheSeq]_vars

\* the second ingest of a batch of two has failed: the first document is in
\* the knowledge base, and the cache has no entry for the query
C38_Witness ==
    \E p \in Sequential :
        /\ task[p].pc = "failed"
        /\ task[p].error[1].call = "vector_store.ingest"
        /\ Len(task[p].mcp_results) = 2
        /\ Len(task[p].ingest_ids) = 1
        /\ \E r \in kb : r.id = task[p].ingest_ids[1]
        /\ ~\E r \in cache : r.query_text = task[p].query

----------------------------------------------------------------------------
(* Properties of the over-fetch of the knowledge search *)

\* the final score of stored document d for the search made: 0.7 times its
\* raw similarity plus 0.3 times the recency score of its age
StoredFinalScore(d) ==
    LET age == now - d.created_at
    IN  7 * RawSimilarity(d) + 3 * (IF age < 7 THEN 10000 ELSE IF age < 30 THEN 7000 ELSE 5000)

\* the stored documents whose similarity passes the threshold of the search
Qualifying ==
    {d \in kb : RawSimilarity(d) >= ks.min_sim}

FetchedIds ==
    {ks.fetched[i].id : i \in 1..Len(ks.fetched)}

\* a search with keywords and a limit L >= 1
LimitedSearch ==
    /\ ks.op = "vector_store.search"
    /\ ks.keywords # <<>>
    /\ ks.limit # <<>>
    /\ ks.limit[1] >= 1

----------------------------------------------------------------------------
(* Properties of the connection pool *)

\* the pools created and not closed
OpenPools ==
    (1..db.created) \ db.closed

\* C40: get_pool creates at most one connection pool under any interleaving
\* of concurrent first calls: between two close_pool calls every caller of
\* get_pool obtains the same pool object, and no created pool is left
\* unreferenced: every pool created and not closed is the one _pool holds.
C40_SinglePool ==
    /\ db.closes = 0 => db.created <= 1
    /\ \A c1, c2 \in PoolCallers :
          (/\ db.co[c1].got # <<>>
           /\ db.co[c2].got # <<>>
           /\ db.co[c1].got[1].closes = db.co[c2].got[1].closes) =>
              db.co[c1].got[1].pool = db.co[c2].got[1].pool
    /\ \A id \in OpenPools : db.pool = <<id>>

====
